---- MODULE Spec2Model ----
(***************************************************************************)
(* Timingsrc sequencing: the SingleSequencer of                            *)
(* src/v3/sequencing/doublesequencer.js, driven by an Axis, a timing       *)
(* object and a Schedule.  The sequencer's own code is under src/; the     *)
(* Axis, the Schedule, Interval and motionutils are required by it but are *)
(* not, and are modelled from the specification.  The BinarySearch of      *)
(* src/unnamed/part_001 is modelled on its own, under SpecBinarySearch,    *)
(* array_concat of src/unnamed/part_000 under SpecArrayConcat, the         *)
(* TimingInteger of src/v2/sequencing/timinginteger.js under               *)
(* SpecTimingInteger, the DoubleSequencer of doublesequencer.js under      *)
(* SpecDoubleSequencer, and the ObservableMap of src/unnamed/part_000      *)
(* under SpecObservableMap.                                                *)
(***************************************************************************)
EXTENDS Integers, Sequences, FiniteSets, TLC

(***************************************************************************)
(* Bounds of the model                                                     *)
(***************************************************************************)
\* the clock runs from 0 to MaxTime
MaxTime == 1

Keys == {1, 2}

\* the elements of a BinarySearch array are 1..MaxElem
MaxElem == 3
\* the two lists given to BinarySearch.update have up to MaxList elements
\* together, or one is a batch too long for the splice strategy
MaxList == 2
\* array_concat is given up to MaxArrays arrays of up to MaxLen elements
MaxArrays == 3
MaxLen == 2
\* the clock of the timing sources of a TimingInteger runs from 0 to MaxClock,
\* in steps of half a time unit
MaxClock == 3
\* the motions timing-object updates set, as <<position, velocity>>: forward
\* from 0, backward from 2, at rest at 1 and at 2
Motions == {<<0, 1>>, <<2, -1>>, <<1, 0>>, <<2, 0>>}

(***************************************************************************)
(* Small sequence helpers                                                  *)
(***************************************************************************)
Range(s) == {s[i] : i \in 1..Len(s)}

SeqKeys(s) == {s[i].key : i \in 1..Len(s)}

\* [...s].filter(Keep)
Filter(s, Keep(_)) ==
    LET F[i \in 0..Len(s)] ==
            IF i = 0 THEN <<>>
            ELSE IF Keep(s[i]) THEN Append(F[i-1], s[i]) ELSE F[i-1]
    IN F[Len(s)]

\* [...s].map(Fn)
MapSeq(s, Fn(_)) == [i \in 1..Len(s) |-> Fn(s[i])]

(***************************************************************************)
(* Cues, intervals, endpoints (util/interval, util/endpoint)               *)
(***************************************************************************)
\* the value undefined where a cue is expected
NoCue == [key |-> 0, low |-> 0, high |-> 0, lowInclude |-> FALSE,
          highInclude |-> FALSE, data |-> 0]

Itv(low, high, lowInclude, highInclude) ==
    [low |-> low, high |-> high, lowInclude |-> lowInclude, highInclude |-> highInclude]

MakeCue(k, itv, d) ==
    [key |-> k, low |-> itv.low, high |-> itv.high, lowInclude |-> itv.lowInclude,
     highInclude |-> itv.highInclude, data |-> d]

\* the cues of the model: key 1 is given a closed interval with either of two
\* payloads or a point, key 2 an interval open on the left
CuesOf(k) ==
    IF k = 1
    THEN {MakeCue(1, Itv(0, 2, TRUE, TRUE), 0), MakeCue(1, Itv(0, 2, TRUE, TRUE), 1),
          MakeCue(1, Itv(1, 1, TRUE, TRUE), 0)}
    ELSE {MakeCue(2, Itv(1, 2, FALSE, TRUE), 0)}

IntervalOf(cue) == Itv(cue.low, cue.high, cue.lowInclude, cue.highInclude)

\* a singular interval: low == high, both ends included
IsSingular(cue) == cue.low = cue.high

\* interval.covers(value)
Covers(cue, p) ==
    /\ (cue.low < p \/ (cue.low = p /\ cue.lowInclude))
    /\ (p < cue.high \/ (cue.high = p /\ cue.highInclude))

\* endpoint = [value, right, closed, singular]
EndpointLow(cue) == <<cue.low, FALSE, cue.lowInclude, IsSingular(cue)>>
EndpointHigh(cue) == <<cue.high, TRUE, cue.highInclude, IsSingular(cue)>>

\* a point interval has one endpoint standing for both ends
EndpointsOf(cue) ==
    IF IsSingular(cue) THEN {EndpointLow(cue)} ELSE {EndpointLow(cue), EndpointHigh(cue)}

\* tie of the endpoint order: -1 right-open, 0 closed or point, +1 left-open
EndpointTie(e) == IF e[3] THEN 0 ELSE IF e[2] THEN -1 ELSE 1

\* endpoint_cmp(a, b) < 0
EndpointBefore(a, b) ==
    \/ a[1] < b[1]
    \/ (a[1] = b[1] /\ EndpointTie(a) < EndpointTie(b))

(***************************************************************************)
(* Motion vectors (util/motionutils)                                       *)
(***************************************************************************)
Vec(p, v, a, t) == [position |-> p, velocity |-> v, acceleration |-> a, timestamp |-> t]

\* calculateVector(vector, ts): position p + v*d + a*d*d/2 at d = ts - timestamp
calculateVector(vector, ts) ==
    LET d == ts - vector.timestamp
    IN Vec(vector.position + vector.velocity * d + (vector.acceleration * d * d) \div 2,
           vector.velocity + vector.acceleration * d,
           vector.acceleration,
           ts)

isMoving(vector) == vector.velocity # 0 \/ vector.acceleration # 0

\* new MotionDelta(old_vector, new_vector): posDelta and moveDelta; hasOld is
\* false when old_vector is undefined (the initial event)
MotionDelta(hasOld, old_vector, new_vector) ==
    IF ~hasOld
    THEN [posDelta |-> "CHANGE",
          moveDelta |-> IF isMoving(new_vector) THEN "START" ELSE "NOOP"]
    ELSE LET old == calculateVector(old_vector, new_vector.timestamp)
         IN [posDelta |-> IF old.position # new_vector.position THEN "CHANGE" ELSE "NOOP",
             moveDelta |->
                 IF isMoving(old) /\ ~isMoving(new_vector) THEN "STOP"
                 ELSE IF ~isMoving(old) /\ isMoving(new_vector) THEN "START"
                 ELSE IF isMoving(old)
                         /\ (old.velocity # new_vector.velocity
                             \/ old.acceleration # new_vector.acceleration)
                      THEN "CHANGE"
                 ELSE "NOOP"]

(***************************************************************************)
(* Axis (sequencing/axis): key -> cue store, batch update, point lookup    *)
(***************************************************************************)
KeySeq == <<1, 2>>

\* what a batch may hold for key k: a cue, or NoCue to delete the key
BatchEntries(k) == {[key |-> k, cue |-> c] : c \in CuesOf(k) \cup {NoCue}}

\* the batches of the model: one entry, or one entry for each key
Batches ==
    {<<e>> : e \in UNION {BatchEntries(k) : k \in Keys}}
    \cup {<<e1, e2>> : e1 \in BatchEntries(1), e2 \in BatchEntries(2)}

\* Axis Delta of one key: NOOP, INSERT, CHANGE, DELETE for interval and data
cue_delta(new, old) ==
    IF old = NoCue /\ new = NoCue THEN [interval |-> "NOOP", data |-> "NOOP"]
    ELSE IF old = NoCue THEN [interval |-> "INSERT", data |-> "INSERT"]
    ELSE IF new = NoCue THEN [interval |-> "DELETE", data |-> "DELETE"]
    ELSE [interval |-> IF IntervalOf(new) = IntervalOf(old) THEN "NOOP" ELSE "CHANGE",
          data |-> IF new.data = old.data THEN "NOOP" ELSE "CHANGE"]

\* the cue store after axis.update(batch)
AxisUpdate(ax, batch) ==
    [k \in Keys |->
        IF \E i \in 1..Len(batch) : batch[i].key = k
        THEN (CHOOSE e \in Range(batch) : e.key = k).cue
        ELSE ax[k]]

\* the eventMap of axis.update(batch): one item per batch entry, in batch order
AxisEventMap(ax, batch) ==
    [i \in 1..Len(batch) |->
        [key |-> batch[i].key, new |-> batch[i].cue, old |-> ax[batch[i].key],
         delta |-> cue_delta(batch[i].cue, ax[batch[i].key])]]

\* axis.lookup(new Interval(p)): the cues covering the point, in key order
AxisLookup(ax, p) ==
    LET all == [i \in 1..Len(KeySeq) |-> ax[KeySeq[i]]]
        Hit(c) == c # NoCue /\ Covers(c, p)
    IN Filter(all, Hit)

(***************************************************************************)
(* Maps as insertion-ordered sequences of cues (JavaScript Map)            *)
(***************************************************************************)
MapHas(m, k) == \E i \in 1..Len(m) : m[i].key = k

MapGet(m, k) == IF MapHas(m, k) THEN m[CHOOSE i \in 1..Len(m) : m[i].key = k] ELSE NoCue

MapDelete(m, k) ==
    LET Keep(c) == c.key # k
    IN Filter(m, Keep)

MapSet(m, k, cue) ==
    IF MapHas(m, k) THEN [i \in 1..Len(m) |-> IF m[i].key = k THEN cue ELSE m[i]]
    ELSE Append(m, cue)

\* util.map_difference(a, b): key in a but not in b
map_difference(a, b) ==
    IF Len(a) = 0 THEN <<>>
    ELSE IF Len(b) = 0 THEN a
    ELSE LET Keep(c) == ~MapHas(b, c.key)
         IN Filter(a, Keep)

\* util.map_intersect(a, b): key in a and b, entries of the smaller map
map_intersect(a, b) ==
    LET x == IF Len(a) <= Len(b) THEN a ELSE b
        y == IF Len(a) <= Len(b) THEN b ELSE a
        Keep(c) == MapHas(y, c.key)
    IN IF Len(x) = 0 THEN <<>> ELSE Filter(x, Keep)

(***************************************************************************)
(* Results of a handler                                                    *)
(***************************************************************************)
\* change records {key, new, old}
Rec(k, new, old) == [key |-> k, new |-> new, old |-> old]

\* what a handler did: threw (an exception left it), active (this._activeCues
\* afterwards), notes (the payloads of its eventifyTriggerEvent("change", ...)
\* calls), sched (the arguments of its this._sched.setVector calls), trace (the
\* order of its effects)
Result(threw, active, notes, sched, trace) ==
    [threw |-> threw, active |-> active, notes |-> notes, sched |-> sched, trace |-> trace]

Thrown(active) == Result(TRUE, active, <<>>, <<>>, <<>>)

(***************************************************************************)
(* SingleSequencer: Axis callback                                          *)
(***************************************************************************)
isNoop(delta) == delta.interval = "NOOP" /\ delta.data = "NOOP"

EventMapHas(eventMap, k) == \E i \in 1..Len(eventMap) : eventMap[i].key = k

EventMapGet(eventMap, k) == eventMap[CHOOSE i \in 1..Len(eventMap) : eventMap[i].key = k]

\* the three lists a _get_events_ method returns; defined is false for the
\* value undefined
Events(defined, exit, change, enter) ==
    [defined |-> defined, exit |-> exit, change |-> change, enter |-> enter]

\* _get_events_from_axis_events(eventMap, position): the loop returns undefined
\* at the first item whose delta is NOOP
get_events_from_axis_events(active, eventMap, position) ==
    LET first == Len(active) = 0
        is_active(item) == IF first THEN FALSE ELSE MapHas(active, item.key)
        should_be_active(item) == item.new # NoCue /\ Covers(item.new, position)
        ExitItem(item) == is_active(item) /\ ~should_be_active(item)
        EnterItem(item) == ~is_active(item) /\ should_be_active(item)
        ChangeItem(item) == is_active(item) /\ should_be_active(item)
        ExitRec(item) == Rec(item.key, NoCue, item.old)
        EnterRec(item) == Rec(item.key, item.new, NoCue)
        ChangeRec(item) == Rec(item.key, item.new, item.old)
    IN IF \E i \in 1..Len(eventMap) : isNoop(eventMap[i].delta)
       THEN Events(FALSE, <<>>, <<>>, <<>>)
       ELSE Events(TRUE,
                   MapSeq(Filter(eventMap, ExitItem), ExitRec),
                   MapSeq(Filter(eventMap, ChangeItem), ChangeRec),
                   MapSeq(Filter(eventMap, EnterItem), EnterRec))

\* _get_events_from_axis_lookup(eventMap, position, approach1); ax is the cue
\* store this._axis.lookup reads
get_events_from_axis_lookup(active, ax, eventMap, position, approach1) ==
    LET activeCues == AxisLookup(ax, position)
        first == Len(active) = 0
        remainCues == map_intersect(active, activeCues)
        Changed1(cue) ==
            EventMapHas(eventMap, cue.key) /\ ~isNoop(EventMapGet(eventMap, cue.key).delta)
        Rec1(cue) ==
            LET item == EventMapGet(eventMap, cue.key)
            IN Rec(item.key, item.new, item.old)
        Changed2(item) == MapHas(remainCues, item.key) /\ ~isNoop(item.delta)
        Rec2(item) == Rec(item.key, item.new, item.old)
        changeEvents ==
            IF first THEN <<>>
            ELSE IF approach1 THEN MapSeq(Filter(remainCues, Changed1), Rec1)
            ELSE MapSeq(Filter(eventMap, Changed2), Rec2)
        ExitRec(cue) == Rec(cue.key, NoCue, cue)
        exitEvents ==
            IF first THEN <<>> ELSE MapSeq(map_difference(active, activeCues), ExitRec)
        enterCues == IF first THEN activeCues ELSE map_difference(activeCues, active)
        EnterRec(cue) == Rec(cue.key, cue, NoCue)
    IN Events(TRUE, exitEvents, changeEvents, MapSeq(enterCues, EnterRec))

\* exitEvents.forEach(item => this._activeCues.delete(item.key))
DeleteAll(active, events) ==
    LET Keep(c) == \A i \in 1..Len(events) : events[i].key # c.key
    IN Filter(active, Keep)

\* enterEvents.forEach(item => this._activeCues.set(item.key, item.new))
SetAll(active, events) ==
    LET F[i \in 0..Len(events)] ==
            IF i = 0 THEN active ELSE MapSet(F[i-1], events[i].key, events[i].new)
    IN F[Len(events)]

\* the update of this._activeCues in _onAxisCallback: exits are deleted, enters
\* are set; change events leave the map as it is
AxisUpdateActive(active, exitEvents, changeEvents, enterEvents) ==
    SetAll(DeleteAll(active, exitEvents), enterEvents)

\* AxisEvents with the enter events in front
AxisEventsEnterFirst(exitEvents, changeEvents, enterEvents) ==
    enterEvents \o changeEvents \o exitEvents

\* const events = exitEvents; events.push(...changeEvents); events.push(...enterEvents)
AxisEvents(exitEvents, changeEvents, enterEvents) ==
    exitEvents \o changeEvents \o enterEvents

\* which of the three results _onAxisCallback acts on
AxisResult(res1, res2, res3) == res3

\* _onAxisCallback(eventMap); ax is the Axis after the update, ready and
\* to_vector the timing object's state, clock_now its clock
onAxisCallback(active, ax, eventMap, ready, to_vector, clock_now) ==
    IF ~ready
    THEN \* this._to.vector is undefined: calculateVector fails on it
         Thrown(active)
    ELSE
    LET now_vector == calculateVector(to_vector, clock_now)
        res1 == get_events_from_axis_events(active, eventMap, now_vector.position)
        res2 == get_events_from_axis_lookup(active, ax, eventMap, now_vector.position, TRUE)
        res3 == get_events_from_axis_lookup(active, ax, eventMap, now_vector.position, FALSE)
        res == AxisResult(res1, res2, res3)
        events == AxisEvents(res.exit, res.change, res.enter)
    IN IF ~res1.defined \/ ~res2.defined \/ ~res3.defined
       THEN \* let [exitEvents1, changeEvents1, enterEvents1] = undefined
            Thrown(active)
       ELSE Result(FALSE,
                   AxisUpdateActive(active, res.exit, res.change, res.enter),
                   IF Len(events) > 0 THEN <<events>> ELSE <<>>,
                   <<now_vector>>,
                   <<"activeCues">>
                       \o (IF Len(events) > 0 THEN <<"trigger">> ELSE <<>>)
                       \o <<"setVector">>)

(***************************************************************************)
(* SingleSequencer: timing object callback                                 *)
(***************************************************************************)
\* whether the identifier `to` of _onTimingCallback resolves: the method has
\* no such parameter or local and the module declares none
ToIsBound == FALSE

\* TimingReconcile with a change record for every cue that stays active
TimingReconcileWithChange(active, ax, hasOld, old_vector, new_vector) ==
    LET delta == MotionDelta(hasOld, old_vector, new_vector)
        activeCues == AxisLookup(ax, new_vector.position)
        exitCues == map_difference(active, activeCues)
        enterCues == map_difference(activeCues, active)
        ExitRec(cue) == Rec(cue.key, NoCue, cue)
        EnterRec(cue) == Rec(cue.key, cue, NoCue)
        ChangeRec(cue) == Rec(cue.key, cue, cue)
        events == MapSeq(exitCues, ExitRec) \o MapSeq(map_intersect(active, activeCues), ChangeRec)
                      \o MapSeq(enterCues, EnterRec)
    IN IF delta.posDelta = "CHANGE" \/ delta.moveDelta = "STOP"
       THEN Result(FALSE, activeCues,
                   IF Len(events) > 0 THEN <<events>> ELSE <<>>,
                   <<new_vector>>,
                   <<"activeCues">>
                       \o (IF Len(events) > 0 THEN <<"trigger">> ELSE <<>>)
                       \o <<"setVector">>)
       ELSE Result(FALSE, active, <<>>, <<new_vector>>, <<"setVector">>)

\* the part of _onTimingCallback after new_vector is resolved
TimingReconcile(active, ax, hasOld, old_vector, new_vector) ==
    LET delta == MotionDelta(hasOld, old_vector, new_vector)
        activeCues == AxisLookup(ax, new_vector.position)
        exitCues == map_difference(active, activeCues)
        enterCues == map_difference(activeCues, active)
        ExitRec(cue) == Rec(cue.key, NoCue, cue)
        EnterRec(cue) == Rec(cue.key, cue, NoCue)
        events == MapSeq(exitCues, ExitRec) \o MapSeq(enterCues, EnterRec)
    IN IF delta.posDelta = "CHANGE" \/ delta.moveDelta = "STOP"
       THEN Result(FALSE, activeCues,
                   IF Len(events) > 0 THEN <<events>> ELSE <<>>,
                   <<new_vector>>,
                   <<"activeCues">>
                       \o (IF Len(events) > 0 THEN <<"trigger">> ELSE <<>>)
                       \o <<"setVector">>)
       ELSE Result(FALSE, active, <<>>, <<new_vector>>, <<"setVector">>)

\* _onTimingCallback(eInfo): to_vector is the timing object's new vector
onTimingCallback(active, ax, init, hasOld, old_vector, to_vector, clock_now) ==
    IF ~ToIsBound
    THEN \* ReferenceError: to is not defined
         Thrown(active)
    ELSE TimingReconcile(active, ax, hasOld, old_vector,
                         IF init THEN calculateVector(to_vector, clock_now) ELSE to_vector)

(***************************************************************************)
(* SingleSequencer: schedule callback                                      *)
(***************************************************************************)
\* endpointItem = {endpoint: [value, right, closed, singular], cue, direction}
EndpointItem(endpoint, cue, direction) ==
    [endpoint |-> endpoint, cue |-> cue, direction |-> direction]

\* ScheduleSingular with the active cue left in the map
ScheduleSingularKeeps(active, item) ==
    IF MapHas(active, item.cue.key)
    THEN [active |-> active,
          events |-> <<Rec(item.cue.key, NoCue, item.cue)>>]
    ELSE [active |-> active,
          events |-> <<Rec(item.cue.key, item.cue, NoCue), Rec(item.cue.key, NoCue, item.cue)>>]

\* ScheduleSingular with the inactive cue's records pushed in the other order
ScheduleSingularSwapped(active, item) ==
    IF MapHas(active, item.cue.key)
    THEN [active |-> MapDelete(active, item.cue.key),
          events |-> <<Rec(item.cue.key, NoCue, item.cue)>>]
    ELSE [active |-> active,
          events |-> <<Rec(item.cue.key, NoCue, item.cue), Rec(item.cue.key, item.cue, NoCue)>>]

\* ScheduleSingular with the inactive cue added to the map
ScheduleSingularToggles(active, item) ==
    IF MapHas(active, item.cue.key)
    THEN [active |-> MapDelete(active, item.cue.key),
          events |-> <<Rec(item.cue.key, NoCue, item.cue)>>]
    ELSE [active |-> MapSet(active, item.cue.key, item.cue),
          events |-> <<Rec(item.cue.key, item.cue, NoCue), Rec(item.cue.key, NoCue, item.cue)>>]

\* the singular branch of the forEach body: [active, events] after the item
ScheduleSingular(active, item) ==
    IF MapHas(active, item.cue.key)
    THEN [active |-> MapDelete(active, item.cue.key),
          events |-> <<Rec(item.cue.key, NoCue, item.cue)>>]
    ELSE [active |-> active,
          events |-> <<Rec(item.cue.key, item.cue, NoCue), Rec(item.cue.key, NoCue, item.cue)>>]

\* ScheduleEnter with the sides mixed up
ScheduleEnterFlipped(item) ==
    LET right_value == IF item.endpoint[2] THEN 1 ELSE -1
    IN (item.direction * right_value) > 0

\* let enter = (item.direction * right_value) > 0
ScheduleEnter(item) ==
    LET right_value == IF item.endpoint[2] THEN -1 ELSE 1
    IN (item.direction * right_value) > 0

\* the non-singular branch of the forEach body
ScheduleEndpoint(active, item) ==
    LET has_cue == MapHas(active, item.cue.key)
    IN IF ScheduleEnter(item)
       THEN IF ~has_cue
            THEN [active |-> MapSet(active, item.cue.key, item.cue),
                  events |-> <<Rec(item.cue.key, item.cue, NoCue)>>]
            ELSE [active |-> active, events |-> <<>>]
       ELSE IF has_cue
            THEN [active |-> MapDelete(active, item.cue.key),
                  events |-> <<Rec(item.cue.key, NoCue, item.cue)>>]
            ELSE [active |-> active, events |-> <<>>]

\* the forEach body of _onScheduleCallback
ScheduleItem(active, item) ==
    IF item.endpoint[4] THEN ScheduleSingular(active, item) ELSE ScheduleEndpoint(active, item)

\* onScheduleCallback with one eventifyTriggerEvent call for each record
onScheduleCallbackPerRecord(active, endpointItems) ==
    LET F[i \in 0..Len(endpointItems)] ==
            IF i = 0 THEN [active |-> active, events |-> <<>>]
            ELSE LET step == ScheduleItem(F[i-1].active, endpointItems[i])
                 IN [active |-> step.active, events |-> F[i-1].events \o step.events]
        done == F[Len(endpointItems)]
    IN Result(FALSE, done.active,
              [i \in 1..Len(done.events) |-> <<done.events[i]>>],
              <<>>,
              <<"activeCues">> \o (IF Len(done.events) > 0 THEN <<"trigger">> ELSE <<>>))

\* _onScheduleCallback(endpointItems)
onScheduleCallback(active, endpointItems) ==
    LET F[i \in 0..Len(endpointItems)] ==
            IF i = 0 THEN [active |-> active, events |-> <<>>]
            ELSE LET step == ScheduleItem(F[i-1].active, endpointItems[i])
                 IN [active |-> step.active, events |-> F[i-1].events \o step.events]
        done == F[Len(endpointItems)]
    IN Result(FALSE, done.active,
              IF Len(done.events) > 0 THEN <<done.events>> ELSE <<>>,
              <<>>,
              <<"activeCues">> \o (IF Len(done.events) > 0 THEN <<"trigger">> ELSE <<>>))

(***************************************************************************)
(* SingleSequencer: readiness and the events of a new subscriber           *)
(***************************************************************************)
\* the timing object as the sequencer sees it: isReady() and the state of
\* its ready promise
TimingObject(is_ready) ==
    [isReady |-> is_ready, ready |-> IF is_ready THEN "resolved" ELSE "pending"]

\* isReady with a latch of its own
isReadyLatched(to) == TRUE

\* isReady() { return this._to.isReady(); }
isReady(to) == to.isReady

\* get ready () { return this._to.ready; }
ready(to) == to.ready

\* a JavaScript array of two elements: an object with the properties "0" and "1"
Pair(a, b) == ("0" :> a) @@ ("1" :> b)

\* eventifyMakeInitEvents(type): the payloads a new subscriber of the event
\* type is given at once
eventifyMakeInitEvents(type, to, active) ==
    IF type = "change" /\ isReady(to) /\ Len(active) > 0
    THEN <<[i \in 1..Len(active) |->
               Pair(active[i].key, [new |-> active[i], old |-> NoCue])]>>
    ELSE <<>>

(***************************************************************************)
(* Schedule (sequencing/schedule): endpoint crossings of the next          *)
(* LOOKAHEAD seconds, delivered in batches when due                        *)
(***************************************************************************)
LOOKAHEAD == 5

Sign(x) == IF x > 0 THEN 1 ELSE IF x < 0 THEN -1 ELSE 0

\* the delays within the window after which the motion is at value; the clock
\* of the model stops at MaxTime, so later crossings are left out
CrossingDelays(vector, value) ==
    {dt \in 0..LOOKAHEAD :
        /\ vector.timestamp + dt <= MaxTime
        /\ calculateVector(vector, vector.timestamp + dt).position = value}

Min(S) == CHOOSE x \in S : \A y \in S : x <= y

\* the queue after schedule.setVector(vector): one entry per endpoint of an
\* Axis cue that the motion reaches within the window
ScheduleQueue(ax, vector) ==
    IF ~isMoving(vector) THEN {}
    ELSE {[due |-> vector.timestamp + Min(CrossingDelays(vector, e[1])),
           item |-> EndpointItem(e, ax[k],
                        Sign(calculateVector(vector,
                                 vector.timestamp + Min(CrossingDelays(vector, e[1]))).velocity))]
          : <<k, e>> \in {<<k, e>> \in Keys \X UNION {EndpointsOf(c) : c \in UNION {CuesOf(k) : k \in Keys}} :
                            /\ ax[k] # NoCue
                            /\ e \in EndpointsOf(ax[k])
                            /\ CrossingDelays(vector, e[1]) # {}}}

\* queue entries due at or before the clock
DueEntries(q, t) == {x \in q : x.due <= t}

\* order of a due batch: by endpoint order, then by key
ItemBefore(a, b) ==
    \/ EndpointBefore(a.endpoint, b.endpoint)
    \/ (~EndpointBefore(b.endpoint, a.endpoint) /\ a.cue.key < b.cue.key)

\* the due entries as the list the subscribers receive
DueBatch(due) ==
    LET items == {x.item : x \in due}
        F[S \in SUBSET items] ==
            IF S = {} THEN <<>>
            ELSE LET m == CHOOSE x \in S : \A y \in S \ {x} : ItemBefore(x, y)
                 IN <<m>> \o F[S \ {m}]
    IN F[items]

(***************************************************************************)
(* BinarySearch (src/unnamed/part_001): a sorted array of unique numbers.  *)
(* Indexes are those of the code: the first element has index 0.           *)
(***************************************************************************)
\* the value Infinity: above every element
Infinity == MaxElem + 1

\* batchLength <= 100 selects the splice strategy
SPLICE_LIMIT == 100

At(array, i) == array[i + 1]

Abs(x) == IF x < 0 THEN -x ELSE x

\* array.sort(cmp) with cmp = a - b: the same numbers in ascending order
Sort(s) ==
    LET Copies(m) == [i \in 1..Cardinality({j \in 1..Len(s) : s[j] = m}) |-> m]
        F[S \in SUBSET Range(s)] ==
            IF S = {} THEN <<>>
            ELSE LET m == Min(S)
                 IN Copies(m) \o F[S \ {m}]
    IN F[Range(s)]

\* array.splice(start, deleteCount, ...items): a negative start counts from
\* the end, deleteCount is cut to what is left
splice(array, start, deleteCount, items) ==
    LET len == Len(array)
        actualStart == IF start < 0
                       THEN (IF len + start < 0 THEN 0 ELSE len + start)
                       ELSE (IF start > len THEN len ELSE start)
        count == IF deleteCount < 0 THEN 0
                 ELSE IF deleteCount > len - actualStart THEN len - actualStart
                 ELSE deleteCount
    IN SubSeq(array, 1, actualStart) \o items \o SubSeq(array, actualStart + count + 1, len)

\* array.indexOf(x): the first index of x, or -1
ArrayIndexOf(array, x) ==
    IF \E i \in 1..Len(array) : array[i] = x
    THEN Min({i \in 1..Len(array) : array[i] = x}) - 1
    ELSE -1

resolve_approach(arrayLength, batchLength) ==
    IF arrayLength = 0 THEN "sort"
    ELSE IF batchLength <= SPLICE_LIMIT THEN "splice" ELSE "sort"

\* binaryIndexOf(searchElement): the index where it is found, else ~maxIndex,
\* which is minus the index it would be inserted at
binaryIndexOf(array, searchElement) ==
    LET Loop[minIndex \in 0..Len(array), maxIndex \in -1..(Len(array) - 1)] ==
            IF minIndex <= maxIndex
            THEN LET currentIndex == (minIndex + maxIndex) \div 2
                     currentElement == At(array, currentIndex)
                 IN IF currentElement < searchElement THEN Loop[currentIndex + 1, maxIndex]
                    ELSE IF currentElement > searchElement THEN Loop[minIndex, currentIndex - 1]
                    ELSE currentIndex
            ELSE -(maxIndex + 1)
    IN Loop[0, Len(array) - 1]

\* isFound without the test for the element at index 0
isFoundPositive(array, index, x) == index > 0

isFound(array, index, x) ==
    \/ index > 0
    \/ (index = 0 /\ Len(array) > 0 /\ At(array, 0) = x)

indexOf(array, x) ==
    LET index == binaryIndexOf(array, x)
    IN IF isFound(array, index, x) THEN index ELSE -1

\* if (index > -1) indexes.push(index)
PushIndex(indexes, index) == IF index > -1 THEN Append(indexes, index) ELSE indexes

\* the indexes of the elements that are found, in the order of the list; the
\* loop over the list is unfolded by halves
indexOfElements(array, elements) ==
    LET F[lo \in 1..(Len(elements) + 1), hi \in 0..Len(elements)] ==
            IF lo > hi THEN <<>>
            ELSE IF lo = hi THEN PushIndex(<<>>, indexOf(array, elements[lo]))
            ELSE F[lo, (lo + hi) \div 2] \o F[(lo + hi) \div 2 + 1, hi]
    IN F[1, Len(elements)]

\* [...new Set(A)]: the first occurrence of each value
unique(A) ==
    LET First(v) == CHOOSE i \in 1..Len(A) : A[i] = v /\ \A j \in 1..(i - 1) : A[j] # v
        F[S \in SUBSET Range(A)] ==
            IF S = {} THEN <<>>
            ELSE LET v == CHOOSE x \in S : \A y \in S : First(x) <= First(y)
                 IN <<v>> \o F[S \ {v}]
    IN F[Range(A)]

\* SpliceInsert without the test for an element that is there already
SpliceInsertAlways(array, x) ==
    LET index == binaryIndexOf(array, x)
    IN splice(array, Abs(index), 0, <<x>>)

\* the body of the INSERT loop of _update_splice: the array after x
SpliceInsert(array, x) ==
    LET index == binaryIndexOf(array, x)
    IN IF ~isFound(array, index, x) THEN splice(array, Abs(index), 0, <<x>>) ELSE array

\* the REMOVE loop of _update_splice over indexes[lo..hi], from the last index
\* to the first: for (let i = indexes.length-1; i > -1; i--)
\* this.array.splice(indexes[i], 1).  The loop is unfolded by halves, the
\* later half of the list first.
RECURSIVE RemoveLoop(_, _, _, _)
RemoveLoop(array, indexes, lo, hi) ==
    IF lo > hi THEN array
    ELSE IF lo = hi THEN splice(array, indexes[lo], 1, <<>>)
    ELSE LET upper == RemoveLoop(array, indexes, (lo + hi) \div 2 + 1, hi)
         IN IF upper = upper THEN RemoveLoop(upper, indexes, lo, (lo + hi) \div 2)
            ELSE array

\* the INSERT loop of _update_splice over to_insert[lo..hi], unfolded by halves
RECURSIVE InsertLoop(_, _, _, _)
InsertLoop(array, to_insert, lo, hi) ==
    IF lo > hi THEN array
    ELSE IF lo = hi THEN SpliceInsert(array, to_insert[lo])
    ELSE LET lower == InsertLoop(array, to_insert, lo, (lo + hi) \div 2)
         IN IF lower = lower THEN InsertLoop(lower, to_insert, (lo + hi) \div 2 + 1, hi)
            ELSE array

\* _update_splice(to_remove, to_insert): the array afterwards
update_splice(array, to_remove, to_insert) ==
    LET indexes == Sort(indexOfElements(array, to_remove))
        removed == IF Len(array) > 0 THEN RemoveLoop(array, indexes, 1, Len(indexes))
                   ELSE array
    IN InsertLoop(removed, to_insert, 1, Len(to_insert))

\* _update_sort(to_remove, to_insert): the array afterwards
update_sort(array, to_remove, to_insert) ==
    LET indexes == indexOfElements(array, to_remove)
        flagged == IF Len(array) > 0
                   THEN [i \in 1..Len(array) |->
                            IF (i - 1) \in Range(indexes) THEN Infinity ELSE array[i]]
                   ELSE array
        sorted == Sort(flagged \o to_insert)
        index == ArrayIndexOf(sorted, Infinity)
    IN unique(splice(sorted, index, Len(sorted), <<>>))

\* update(to_remove, to_insert): the array afterwards
update(array, to_remove, to_insert) ==
    LET size == Len(to_remove) + Len(to_insert)
        approach == resolve_approach(Len(array), size)
    IN IF size = 0 THEN array
       ELSE IF approach = "splice" THEN update_splice(array, to_remove, to_insert)
       ELSE update_sort(array, to_remove, to_insert)

Elements == 1..MaxElem

\* insert(to_insert): update([], to_insert)
insert(array, to_insert) == update(array, <<>>, to_insert)

\* remove(to_remove): update(to_remove, [])
remove(array, to_remove) == update(array, to_remove, <<>>)

\* clear(): this.array = []
clear(array) == <<>>

\* has(x): this.indexOfByValue(x) > -1.  BinarySearch has no method
\* indexOfByValue, so the call throws a TypeError whatever x is
has(array, x) == [threw |-> TRUE, value |-> FALSE]

\* ltIndexOf(x): the index of the largest element less than x, or -1
ltIndexOf(array, x) ==
    LET i == binaryIndexOf(array, x)
    IN IF isFound(array, i, x)
       THEN (IF i > 0 THEN i - 1 ELSE -1)
       ELSE Abs(i) - 1

\* leIndexOf(x): the index of the largest element less than or equal to x, or -1
leIndexOf(array, x) ==
    LET i == binaryIndexOf(array, x)
    IN IF isFound(array, i, x) THEN i
       ELSE (IF Abs(i) - 1 >= 0 THEN Abs(i) - 1 ELSE -1)

\* gtIndexOf without the test for the end of the array
gtIndexOfUnbounded(array, x) ==
    LET i == binaryIndexOf(array, x)
    IN IF isFound(array, i, x) THEN i + 1
       ELSE (IF Abs(i) < Len(array) THEN Abs(i) ELSE -1)

\* gtIndexOf(x): the index of the smallest element greater than x, or -1
gtIndexOf(array, x) ==
    LET i == binaryIndexOf(array, x)
    IN IF isFound(array, i, x)
       THEN (IF i < Len(array) - 1 THEN i + 1 ELSE -1)
       ELSE (IF Abs(i) < Len(array) THEN Abs(i) ELSE -1)

\* geIndexOf(x): the index of the smallest element greater than or equal to x, or -1
geIndexOf(array, x) ==
    LET i == binaryIndexOf(array, x)
    IN IF isFound(array, i, x) THEN i
       ELSE (IF Abs(i) < Len(array) THEN Abs(i) ELSE -1)

\* what an emptyIterator yields
emptyIterator == <<>>

\* what a sliceIterator yields: array[start], ..., array[stop - 1]
sliceIterator(array, start, stop) ==
    [i \in 1..(IF stop > start THEN stop - start ELSE 0) |-> At(array, start + i - 1)]

\* the value undefined where an interval is expected
NoInterval == Itv(0, 0, FALSE, FALSE)

\* lookup with both endpoints taken as included
lookupClosed(array, interval) ==
    LET itv == IF interval = NoInterval THEN Itv(-Infinity, Infinity, TRUE, TRUE)
               ELSE interval
        start_index == geIndexOf(array, itv.low)
        end_index == leIndexOf(array, itv.high)
    IN IF start_index = -1 THEN emptyIterator
       ELSE IF end_index = -1 THEN emptyIterator
       ELSE sliceIterator(array, start_index, end_index + 1)

\* lookup(interval): the elements the returned iterator yields
lookup(array, interval) ==
    LET itv == IF interval = NoInterval THEN Itv(-Infinity, Infinity, TRUE, TRUE)
               ELSE interval
        start_index == IF itv.lowInclude THEN geIndexOf(array, itv.low)
                       ELSE gtIndexOf(array, itv.low)
        end_index == IF itv.highInclude THEN leIndexOf(array, itv.high)
                     ELSE ltIndexOf(array, itv.high)
    IN IF start_index = -1 THEN emptyIterator
       ELSE IF end_index = -1 THEN emptyIterator
       ELSE sliceIterator(array, start_index, end_index + 1)

\* the values searched for: the elements, a value below and a value above them
Searched == 0..Infinity

\* the intervals looked up: low <= high, a point with both ends included,
\* and undefined
Lookups ==
    {i \in [low : Searched, high : Searched, lowInclude : BOOLEAN, highInclude : BOOLEAN] :
        i.low < i.high \/ (i.low = i.high /\ i.lowInclude /\ i.highInclude)}
    \cup {NoInterval}

\* the lists of up to n elements
ListsUpTo(n) == UNION {[1..m -> Elements] : m \in 0..n}

\* the batches of SPLICE_LIMIT + 1 copies of the least and of the greatest
\* element
LongLists == {[i \in 1..(SPLICE_LIMIT + 1) |-> x] : x \in {1, MaxElem}}

\* the arguments <<to_remove, to_insert>> of the model: lists of up to
\* MaxList elements together, and a long batch with a list of at most one
\* element or with another long batch
Updates ==
    {u \in ListsUpTo(MaxList) \X ListsUpTo(MaxList) : Len(u[1]) + Len(u[2]) <= MaxList}
    \cup (LongLists \X (ListsUpTo(1) \cup LongLists))
    \cup (ListsUpTo(1) \X LongLists)

(***************************************************************************)
(* array_concat (src/unnamed/part_000).  Arrays are objects: heap maps the *)
(* identity of an array to its elements, and a list of arrays is a list of *)
(* identities.                                                             *)
(***************************************************************************)
\* the identity of the array a call creates with []
NewArray == 0

\* the arrays a caller holds: array a has the elements <<a, 1>>, <<a, 2>>, ...
ArrayOf(a, len) == [j \in 1..len |-> <<a, j>>]

\* the heaps of a caller with n arrays
Heaps(n) == {[a \in 1..n |-> ArrayOf(a, len[a])] : len \in [1..n -> 0..MaxLen]}

\* arrays.sort((a, b) => b.length - a.length): longest first, arrays of the
\* same length in the order they had
SortByLength(heap, arrays) ==
    LET Before(j, i) == \/ Len(heap[arrays[j]]) > Len(heap[arrays[i]])
                        \/ (Len(heap[arrays[j]]) = Len(heap[arrays[i]]) /\ j < i)
        Rank(i) == Cardinality({j \in 1..Len(arrays) : Before(j, i)}) + 1
    IN [r \in 1..Len(arrays) |-> arrays[CHOOSE i \in 1..Len(arrays) : Rank(i) = r]]

\* for (let arr of arrays) first[start + i] = arr[i]: first, filled up with
\* the entries of the arrays
FillUp(heap, first, arrays) ==
    LET F[i \in 0..Len(arrays)] ==
            IF i = 0 THEN first ELSE F[i - 1] \o heap[arrays[i]]
    IN F[Len(arrays)]

\* what a call of array_concat leaves: the array returned, the heap and the
\* caller's list of arrays
Concat(result, heap, arrays) == [result |-> result, heap |-> heap, arrays |-> arrays]

\* array_concat(arrays, {copy, order})
array_concat(heap, arrays, copy, order) ==
    IF Len(arrays) = 0 THEN Concat(NewArray, heap @@ (NewArray :> <<>>), arrays)
    ELSE IF Len(arrays) = 1 THEN Concat(arrays[1], heap, arrays)
    ELSE LET sorted == IF ~order THEN SortByLength(heap, arrays) ELSE arrays
             first == IF copy THEN NewArray ELSE Head(sorted)
             rest == IF copy THEN sorted ELSE Tail(sorted)
             start == IF copy THEN <<>> ELSE heap[first]
             filled == FillUp(heap, start, rest)
         IN Concat(first, (first :> filled) @@ heap, rest)

(***************************************************************************)
(* TimingInteger (src/v2/sequencing/timinginteger.js).  The timing         *)
(* sources, their clock and its timeouts, motionutils and eventify are not *)
(* part of the source and are modelled from the specification.  Positions  *)
(* and times are counted in halves: position 3 is one and a half, and a    *)
(* velocity of 1 is one unit of position per unit of time.                 *)
(***************************************************************************)
\* the timing sources a TimingInteger is given
Sources == {1, 2}

\* the velocities timing sources are given
Velocities == {-1, 0, 1}

\* the positions timing sources start at: 0 and one half
Starts == {0, 1}

\* the init_value of the constructor: 0 by default
init_value == 0

\* a timing source: isReady(), the position and the velocity of query(),
\* and whether _wrappedOnChange is among its "change" handlers
Source(is_ready, position, velocity, subscribed) ==
    [ready |-> is_ready, position |-> position, velocity |-> velocity,
     subscribed |-> subscribed]

\* Math.floor(position)
Floor(position) == position \div 2

\* Number.isInteger(position)
IsInteger(position) == position % 2 = 0

\* the getter of value
value(src) == IF src.ready THEN Floor(src.position) ELSE init_value

\* _calculatePoints(position)
calculatePoints(position) ==
    IF IsInteger(position)
    THEN [isTarget |-> TRUE, before |-> position - 2, after |-> position + 2]
    ELSE [isTarget |-> FALSE, before |-> 2 * Floor(position),
          after |-> 2 * Floor(position) + 2]

\* the delay null
NoDelay == -1

\* motionutils.calculateDelta(vector, [before, after])[0]: the time until the
\* position reaches one of the two points, null when it never does
calculateDelta(src, before, after) ==
    IF ~src.ready \/ src.velocity = 0 THEN NoDelay
    ELSE IF src.velocity > 0 THEN (after - src.position) \div src.velocity
    ELSE (src.position - before) \div (-src.velocity)

\* _calculateTimeout(): the delay of the next timeout
calculateTimeout(src) ==
    LET points == calculatePoints(src.position)
    IN calculateDelta(src, points.before, points.after)

\* this._timeout === null
NoTimeout == 0

\* a timeout armed on the clock of source src, to fire at time at
Timer(id, at, src) == [id |-> id, at |-> at, src |-> src]

\* the handle of a timeout the clock arms: the least one not armed
FreshTimer(timers) ==
    CHOOSE id \in 1..(Cardinality(timers) + 1) : \A t \in timers : t.id # id

\* clearTimeout with no timeout cancelled
clearTimeoutNever(timeout, timers) == timers

\* _clearTimeout(): the timeouts left armed
clearTimeout(timeout, timers) ==
    IF timeout # NoTimeout THEN {t \in timers : t.id # timeout} ELSE timers

\* _renewTimeout(): this._timeout and the armed timeouts afterwards
renewTimeout(timeout, timers, timingsrc, src, clock) ==
    LET cleared == clearTimeout(timeout, timers)
        delay == calculateTimeout(src)
    IN IF delay = NoDelay THEN [timeout |-> NoTimeout, timers |-> cleared]
       ELSE [timeout |-> FreshTimer(cleared),
             timers |-> cleared \cup {Timer(FreshTimer(cleared), clock + delay, timingsrc)}]

\* TimingInteger.prototype.isReady(): this._timingsrc.isReady()
integerIsReady(src) == [threw |-> FALSE, value |-> src.ready]

\* the ready getter of the TimingInteger: this._to.ready, where no code sets
\* this._to: the read of .ready of undefined throws
integerReady(src) == [threw |-> TRUE, value |-> FALSE]

\* a "change" event of the TimingInteger: what caused it (a change event of
\* source src, or a timeout armed on src), this._timingsrc at that moment
\* and the value a handler reads
Emitted(op, src, current, val) == [op |-> op, src |-> src, current |-> current, value |-> val]

NoEmitted == Emitted("none", 0, 0, init_value)

(***************************************************************************)
(* DoubleSequencer (src/v3/sequencing/doublesequencer.js, lines 11-276)    *)
(***************************************************************************)
\* the two timing objects of a DoubleSequencer
Tos == {"toA", "toB"}

\* (to == this._toA) ? this._toB : this._toA
OtherTo(to) == IF to = "toA" THEN "toB" ELSE "toA"

\* a timing object: isReady() and vector
To(is_ready, to_vector) == [ready |-> is_ready, vector |-> to_vector]

\* this._activeCues: a Map, or the value undefined
ActiveMap(defined, cues) == [defined |-> defined, cues |-> cues]

\* the fields of a DoubleSequencer
Double(ready_value, toA_ready, toB_ready, active) ==
    [ready |-> ready_value, toA_ready |-> toA_ready, toB_ready |-> toB_ready,
     activeCues |-> active]

\* axis.lookup(new Interval(low, high, true, true)): the cues whose interval
\* overlaps the closed interval, in key order
AxisLookupInterval(ax, low, high) ==
    LET all == [i \in 1..Len(KeySeq) |-> ax[KeySeq[i]]]
        Hit(c) ==
            /\ c # NoCue
            /\ (c.low < high \/ (c.low = high /\ c.lowInclude))
            /\ (low < c.high \/ (c.high = low /\ c.highInclude))
    IN Filter(all, Hit)

\* a call this._scheduleA.setVector(vector) or this._scheduleB.setVector(vector)
SetVector(to, to_vector) == [to |-> to, vector |-> to_vector]

\* _onTimingUpdate(to, new_vector): active is this._activeCues, old_vector is
\* to.old_vector and other_vector is other_to.vector.  With no jump the locals
\* activeCues, enterCues and exitCues stay undefined: undefined is assigned
\* to this._activeCues and exitCues.values() throws.  With this._activeCues
\* undefined util.map_difference throws on a.size.
onTimingUpdate(active, ax, to, hasOld, old_vector, new_vector, other_vector) ==
    LET other_new_vector == calculateVector(other_vector, new_vector.timestamp)
        delta == MotionDelta(hasOld, old_vector, new_vector)
        low == IF new_vector.position <= other_new_vector.position
               THEN new_vector.position ELSE other_new_vector.position
        high == IF new_vector.position <= other_new_vector.position
                THEN other_new_vector.position ELSE new_vector.position
        activeCues == AxisLookupInterval(ax, low, high)
        exitCues == map_difference(active.cues, activeCues)
        enterCues == map_difference(activeCues, active.cues)
        ExitRec(cue) == Rec(cue.key, NoCue, cue)
        EnterRec(cue) == Rec(cue.key, cue, NoCue)
        changeMap == MapSeq(exitCues, ExitRec) \o MapSeq(enterCues, EnterRec)
    IN IF delta.posDelta = "CHANGE"
       THEN IF ~active.defined
            THEN Thrown(active)
            ELSE Result(FALSE, ActiveMap(TRUE, activeCues), <<changeMap>>,
                        <<SetVector(to, new_vector)>>,
                        <<"setVector", "activeCues", "trigger">>)
       ELSE Result(TRUE, ActiveMap(FALSE, <<>>), <<>>, <<SetVector(to, new_vector)>>,
                   <<"setVector", "activeCues">>)

\* if (this._toA_ready || this._toB_ready) in place of ReadyAfter
ReadyAfterEither(toA_ready, toB_ready) == toA_ready \/ toB_ready

\* if (this._toA_ready && this._toB_ready) { this._ready.value = true; }
ReadyAfter(toA_ready, toB_ready) == toA_ready /\ toB_ready

\* the readiness part of _onTimingUpdateWrapper(eInfo), with to == eInfo.src
CheckReadiness(d, to) ==
    IF d.ready THEN d
    ELSE LET toA_ready == d.toA_ready \/ to = "toA"
             toB_ready == d.toB_ready \/ to = "toB"
         IN Double(ReadyAfter(toA_ready, toB_ready), toA_ready, toB_ready, d.activeCues)

\* DoubleSequencer.isReady()
doubleIsReady(d) == d.ready

\* get ready(): eventify.makeEventPromise(this._ready, true), resolved once
\* this._ready.value is true
doubleReady(d) == [resolved |-> d.ready]

\* has(key), get(key), keys(), values() and entries() read this._activeCues:
\* they throw when it is undefined
accessors(d) ==
    [threw |-> ~d.activeCues.defined,
     keys |-> IF d.activeCues.defined THEN SeqKeys(d.activeCues.cues) ELSE {},
     entries |-> IF d.activeCues.defined THEN d.activeCues.cues ELSE <<>>]

\* _onTimingUpdateWrapper(eInfo): [double, processed, res], processed when
\* _onTimingUpdate was called; tos are the timing objects, clock_now their
\* clock, old_vector is to.old_vector and hasOld is false when it is undefined
onTimingUpdateWrapper(d, ax, tos, to, init, hasOld, old_vector, clock_now) ==
    LET checked == CheckReadiness(d, to)
        new_vector == IF init THEN calculateVector(tos[to].vector, clock_now)
                      ELSE tos[to].vector
        res == onTimingUpdate(checked.activeCues, ax, to, hasOld, old_vector, new_vector,
                              tos[OtherTo(to)].vector)
    IN IF doubleIsReady(checked)
       THEN [double |-> [checked EXCEPT !.activeCues = res.active],
             processed |-> TRUE, res |-> res]
       ELSE [double |-> checked, processed |-> FALSE,
             res |-> Result(FALSE, checked.activeCues, <<>>, <<>>, <<>>)]

(***************************************************************************)
(* ObservableMap (src/unnamed/part_000, lines 258-462), over a datasource  *)
(* that is a Map; eventify is imported by it and modelled from its use:    *)
(* a subscription with init is given its init events in a later step, and  *)
(* is given no other event before them                                     *)
(***************************************************************************)
\* the value undefined
Undefined == 0

\* the values given to set(key, value)
Values == {Undefined, 1, 2}

\* an entry of the datasource
Entry(k, val) == [key |-> k, value |-> val]

\* an event item {key, new, old}
Item(k, new, old) == [key |-> k, new |-> new, old |-> old]

\* this.datasource.get(key)
DatasourceGet(ds, k) ==
    IF MapHas(ds, k) THEN ds[CHOOSE i \in 1..Len(ds) : ds[i].key = k].value ELSE Undefined

\* a triggered event: its name and its argument, the items of a "batch" or
\* the one item of a "change" or a "remove"
Triggered(name, items) == [name |-> name, items |-> items]

\* eventifyInitEventArgs(name): the arguments of the init events
eventifyInitEventArgs(ds, name) ==
    LET InitItem(e) == Item(e.key, e.value, Undefined)
        items == MapSeq(ds, InitItem)
    IN IF name = "batch" THEN <<items>>
       ELSE IF name = "change" THEN [i \in 1..Len(items) |-> <<items[i]>>]
       ELSE <<>>

\* the events the loop of _notifyEvents triggers for one item
NotifyItem(item, has_remove_subs, has_change_subs) ==
    IF item.new = Undefined /\ item.old # Undefined
    THEN IF has_remove_subs THEN <<Triggered("remove", <<item>>)>> ELSE <<>>
    ELSE IF has_change_subs THEN <<Triggered("change", <<item>>)>> ELSE <<>>

\* _notifyEvents(items): the events it triggers, in order; subs tells for
\* each event the state of its subscription
notifyEvents(items, subs) ==
    LET has_update_subs == subs["batch"] # "off"
        has_remove_subs == subs["remove"] # "off"
        has_change_subs == subs["change"] # "off"
        F[i \in 0..Len(items)] ==
            IF i = 0 THEN <<>>
            ELSE F[i-1] \o NotifyItem(items[i], has_remove_subs, has_change_subs)
    IN IF Len(items) = 0 THEN <<>>
       ELSE (IF has_update_subs THEN <<Triggered("batch", items)>> ELSE <<>>)
            \o (IF has_remove_subs \/ has_change_subs THEN F[Len(items)] ELSE <<>>)

\* what a call did: the datasource afterwards, what it returned (delete:
\* result) and the items given to _notifyEvents
MapCall(ds, result, items) == [datasource |-> ds, result |-> result, items |-> items]

\* set(key, value)
observableSet(ds, k, val) ==
    LET old == IF MapHas(ds, k) THEN DatasourceGet(ds, k) ELSE Undefined
    IN MapCall(MapSet(ds, k, Entry(k, val)), TRUE, <<Item(k, val, old)>>)

\* delete(key)
observableDelete(ds, k) ==
    IF MapHas(ds, k)
    THEN MapCall(MapDelete(ds, k), TRUE, <<Item(k, Undefined, DatasourceGet(ds, k))>>)
    ELSE MapCall(ds, FALSE, <<Item(k, Undefined, Undefined)>>)

\* clear()
observableClear(ds) ==
    LET ClearItem(e) == Item(e.key, Undefined, e.value)
    IN MapCall(<<>>, TRUE, MapSeq(ds, ClearItem))

\* the events given to the subscribers: a subscription whose init events are
\* pending is passed over
Delivered(events, subs) ==
    LET On(e) == subs[e.name] = "on"
    IN Filter(events, On)

\* the subscriber keeping a replica: set key to new when new is defined,
\* delete key otherwise, for every item of a "batch" event
ApplyItem(rep, item) ==
    IF item.new # Undefined THEN MapSet(rep, item.key, Entry(item.key, item.new))
    ELSE MapDelete(rep, item.key)

ApplyItems(rep, items) ==
    LET F[i \in 0..Len(items)] == IF i = 0 THEN rep ELSE ApplyItem(F[i-1], items[i])
    IN F[Len(items)]

ApplyEvents(rep, events) ==
    LET F[i \in 0..Len(events)] ==
            IF i = 0 THEN rep
            ELSE IF events[i].name = "batch" THEN ApplyItems(F[i-1], events[i].items)
            ELSE F[i-1]
    IN F[Len(events)]

(***************************************************************************)
(* State                                                                   *)
(***************************************************************************)
VARIABLES
    axis,        \* Axis: key -> cue, NoCue for a key it does not hold
    toReady,     \* timing object: isReady()
    vector,      \* timing object: vector
    now,         \* timing object: clock.now()
    activeCues,  \* SingleSequencer._activeCues, in insertion order
    queue,       \* Schedule: the pending endpoint crossings
    ev,          \* the last event delivered to the sequencer and what its handler did
    array,       \* BinarySearch.array
    call,        \* the last call of BinarySearch.update: its arguments, the array before
    query,       \* the last query of the BinarySearch since: its argument and result
    concat,      \* the last call of array_concat: its arguments and what it left
    sources,     \* the timing sources: source -> isReady(), query(), handlers
    clock,       \* the clock of the timing sources
    timers,      \* the timeouts armed on the clock
    timingsrc,   \* TimingInteger._timingsrc
    timeout,     \* TimingInteger._timeout
    pendingInit, \* eventify owes the handler of the TimingInteger its init event
    emitted,     \* the last "change" event of the TimingInteger
    timingObjects, \* the timing objects toA and toB of the DoubleSequencer
    double,        \* the DoubleSequencer: _ready, _toA_ready, _toB_ready, _activeCues
    wrapped,       \* the last change event given to _onTimingUpdateWrapper and what it did
    delivered,     \* the timing objects that have delivered a change event
    datasource,    \* ObservableMap.datasource, a Map in insertion order
    subscriptions, \* the subscriptions to "batch", "change" and "remove"
    replica,       \* the Map the subscriber to "batch" keeps
    notified       \* the last call of the ObservableMap and the events it delivered

\* the state of the sequencer, of the BinarySearch, of the TimingInteger, of
\* the DoubleSequencer and of the ObservableMap
sequencerVars == <<axis, toReady, vector, now, activeCues, queue, ev>>

binarySearchVars == <<array, call, query>>

timingIntegerVars == <<sources, clock, timers, timingsrc, timeout, pendingInit, emitted>>

doubleSequencerVars == <<timingObjects, double, wrapped, delivered>>

observableMapVars == <<datasource, subscriptions, replica, notified>>

vars == <<sequencerVars, binarySearchVars, concat, timingIntegerVars, doubleSequencerVars,
          observableMapVars>>

NoVector == Vec(0, 0, 0, 0)

NoDelta == [posDelta |-> "NOOP", moveDelta |-> "NOOP"]

\* record of an event: op names the handler, pre is this._activeCues before it,
\* eventMap, items and (init, delta) are what an Axis, a Schedule and a timing
\* event deliver, res is what the handler did
Event(op, pre, eventMap, items, init, delta, res) ==
    [op |-> op, pre |-> pre, eventMap |-> eventMap, items |-> items, init |-> init,
     delta |-> delta, res |-> res]

NoEvent == Event("none", <<>>, <<>>, <<>>, FALSE, NoDelta, Result(FALSE, <<>>, <<>>, <<>>, <<>>))

\* record of a call of BinarySearch.update
Call(op, pre, to_remove, to_insert) ==
    [op |-> op, pre |-> pre, to_remove |-> to_remove, to_insert |-> to_insert]

NoCall == Call("none", <<>>, <<>>, <<>>)

\* record of a query of the BinarySearch: the value or the interval asked
\* for, and the answer: an index, a boolean or the elements an iterator
\* yields, or that the call threw
Query(op, x, interval, index, found, yielded, threw) ==
    [op |-> op, x |-> x, interval |-> interval, index |-> index, found |-> found,
     yielded |-> yielded, threw |-> threw]

NoQuery == Query("none", 0, NoInterval, -1, FALSE, <<>>, FALSE)

\* a query for the index of x, for whether x is found, and for the elements
\* of an interval
IndexQuery(op, x, index) == Query(op, x, NoInterval, index, FALSE, <<>>, FALSE)

FoundQuery(op, x, res) == Query(op, x, NoInterval, -1, res.value, <<>>, res.threw)

IntervalQuery(op, interval, yielded) == Query(op, 0, interval, -1, FALSE, yielded, FALSE)

\* record of a call of array_concat(arrays, {copy, order}): the heap and
\* the list before it, and what it left
ConcatCall(heap, arrays, copy, order, res) ==
    [heap |-> heap, arrays |-> arrays, copy |-> copy, order |-> order, res |-> res]

NoConcat == ConcatCall(<<>>, <<>>, FALSE, FALSE, Concat(NewArray, <<>>, <<>>))

\* record of a change event given to _onTimingUpdateWrapper: the timing
\* object it came from, eInfo.init, isReady() before it, whether
\* _onTimingUpdate was called, the delta of the vectors and what was done
Wrapped(op, src, init, wasReady, processed, delta, res) ==
    [op |-> op, src |-> src, init |-> init, wasReady |-> wasReady,
     processed |-> processed, delta |-> delta, res |-> res]

NoWrapped ==
    Wrapped("none", "none", FALSE, FALSE, FALSE, NoDelta,
            Result(FALSE, ActiveMap(TRUE, <<>>), <<>>, <<>>, <<>>))

\* record of a call of the ObservableMap, or of a subscription and its init
\* events: the arguments, the datasource before, delete's result and the
\* events the subscribers were given
Notified(op, k, val, pre, result, events) ==
    [op |-> op, key |-> k, value |-> val, pre |-> pre, result |-> result,
     events |-> events]

NoNotified == Notified("none", 0, Undefined, <<>>, FALSE, <<>>)

\* after construction: empty Axis, timing object not ready, no active cue;
\* new BinarySearch(): empty array; new TimingInteger(source 1): subscribed
\* to source 1, which is not ready, and no timeout; new DoubleSequencer(axis,
\* toA, toB): not ready, an empty Map of active cues; an ObservableMap over
\* an empty Map, with no subscriber
Init ==
    /\ axis = [k \in Keys |-> NoCue]
    /\ toReady = FALSE
    /\ vector = NoVector
    /\ now = 0
    /\ activeCues = <<>>
    /\ queue = {}
    /\ ev = NoEvent
    /\ array = <<>>
    /\ call = NoCall
    /\ query = NoQuery
    /\ concat = NoConcat
    /\ sources = [s \in Sources |-> Source(FALSE, 0, 0, s = 1)]
    /\ clock = 0
    /\ timers = {}
    /\ timingsrc = 1
    /\ timeout = NoTimeout
    /\ pendingInit = FALSE
    /\ emitted = NoEmitted
    /\ timingObjects = [t \in Tos |-> To(FALSE, NoVector)]
    /\ double = Double(FALSE, FALSE, FALSE, ActiveMap(TRUE, <<>>))
    /\ wrapped = NoWrapped
    /\ delivered = {}
    /\ datasource = <<>>
    /\ subscriptions = [name \in {"batch", "change", "remove"} |-> "off"]
    /\ replica = <<>>
    /\ notified = NoNotified

\* the Schedule after a handler: setVector replaces the queue
QueueAfter(q, ax, res) ==
    IF Len(res.sched) = 0 THEN q ELSE ScheduleQueue(ax, res.sched[Len(res.sched)])

\* axis.update(batch): the Axis changes and calls back the sequencer
AxisBatch ==
    \E batch \in Batches :
        LET ax == AxisUpdate(axis, batch)
            eventMap == AxisEventMap(axis, batch)
        IN \E res \in {onAxisCallback(activeCues, ax, eventMap, toReady, vector, now)} :
            /\ axis' = ax
            /\ activeCues' = res.active
            /\ queue' = QueueAfter(queue, ax, res)
            /\ ev' = Event("axis", activeCues, eventMap, <<>>, FALSE, NoDelta, res)
            /\ UNCHANGED <<toReady, vector, now, binarySearchVars, concat, timingIntegerVars, doubleSequencerVars, observableMapVars>>

\* the timing object becomes ready and delivers its initial change event
TimingReady ==
    /\ ~toReady
    /\ \E m \in Motions, t \in 0..now :
        LET new == Vec(m[1], m[2], 0, t)
        IN \E res \in {onTimingCallback(activeCues, axis, TRUE, FALSE, NoVector, new, now)} :
            /\ toReady' = TRUE
            /\ vector' = new
            /\ activeCues' = res.active
            /\ queue' = QueueAfter(queue, axis, res)
            /\ ev' = Event("timing", activeCues, <<>>, <<>>, TRUE,
                           MotionDelta(FALSE, NoVector, calculateVector(new, now)), res)
    /\ UNCHANGED <<axis, now, binarySearchVars, concat, timingIntegerVars, doubleSequencerVars, observableMapVars>>

\* the timing object is updated and delivers a change event
TimingChange ==
    /\ toReady
    /\ \E m \in Motions :
        LET new == Vec(m[1], m[2], 0, now)
        IN \E res \in {onTimingCallback(activeCues, axis, FALSE, TRUE, vector, new, now)} :
            /\ vector' = new
            /\ activeCues' = res.active
            /\ queue' = QueueAfter(queue, axis, res)
            /\ ev' = Event("timing", activeCues, <<>>, <<>>, FALSE,
                           MotionDelta(TRUE, vector, new), res)
    /\ UNCHANGED <<axis, toReady, now, binarySearchVars, concat, timingIntegerVars, doubleSequencerVars, observableMapVars>>

\* the Schedule's timer fires: the due entries are delivered as one batch
ScheduleFire ==
    /\ DueEntries(queue, now) # {}
    /\ \E items \in {DueBatch(DueEntries(queue, now))} :
        \E res \in {onScheduleCallback(activeCues, items)} :
            /\ activeCues' = res.active
            /\ queue' = queue \ DueEntries(queue, now)
            /\ ev' = Event("schedule", activeCues, <<>>, items, FALSE, NoDelta, res)
    /\ UNCHANGED <<axis, toReady, vector, now, binarySearchVars, concat, timingIntegerVars, doubleSequencerVars, observableMapVars>>

\* the clock advances with no event delivered; a due timer fires first
Tick ==
    /\ now < MaxTime
    /\ DueEntries(queue, now) = {}
    /\ now' = now + 1
    /\ ev' = NoEvent
    /\ UNCHANGED <<axis, toReady, vector, activeCues, queue, binarySearchVars, concat, timingIntegerVars, doubleSequencerVars, observableMapVars>>

\* sequencer.on("change", handler): the subscriber is given the init events
Subscribe ==
    /\ \E payloads \in {eventifyMakeInitEvents("change", TimingObject(toReady), activeCues)} :
          ev' = Event("subscribe", activeCues, <<>>, <<>>, FALSE, NoDelta,
                      Result(FALSE, activeCues, payloads, <<>>,
                             IF Len(payloads) > 0 THEN <<"trigger">> ELSE <<>>))
    /\ UNCHANGED <<axis, toReady, vector, now, activeCues, queue, binarySearchVars, concat, timingIntegerVars, doubleSequencerVars, observableMapVars>>

Next == AxisBatch \/ TimingReady \/ TimingChange \/ ScheduleFire \/ Tick \/ Subscribe

Spec == Init /\ [][Next]_vars

\* binarySearch.update(to_remove, to_insert)
Update ==
    /\ \E u \in Updates :
          /\ array' = update(array, u[1], u[2])
          /\ call' = Call("update", array, u[1], u[2])
    /\ query' = NoQuery
    /\ UNCHANGED <<sequencerVars, concat, timingIntegerVars, doubleSequencerVars, observableMapVars>>

\* binarySearch.insert(to_insert); the longer short lists are given to update
Insert ==
    /\ \E to_insert \in ListsUpTo(1) \cup LongLists :
          /\ array' = insert(array, to_insert)
          /\ call' = Call("insert", array, <<>>, to_insert)
    /\ query' = NoQuery
    /\ UNCHANGED <<sequencerVars, concat, timingIntegerVars, doubleSequencerVars, observableMapVars>>

\* binarySearch.remove(to_remove); the longer short lists are given to update
Remove ==
    /\ \E to_remove \in ListsUpTo(1) \cup LongLists :
          /\ array' = remove(array, to_remove)
          /\ call' = Call("remove", array, to_remove, <<>>)
    /\ query' = NoQuery
    /\ UNCHANGED <<sequencerVars, concat, timingIntegerVars, doubleSequencerVars, observableMapVars>>

\* binarySearch.clear()
Clear ==
    /\ array' = clear(array)
    /\ call' = Call("clear", array, <<>>, <<>>)
    /\ query' = NoQuery
    /\ UNCHANGED <<sequencerVars, concat, timingIntegerVars, doubleSequencerVars, observableMapVars>>

\* a query leaves the array as it is; the record of the last update is dropped
Asked ==
    /\ call' = NoCall
    /\ UNCHANGED <<array, sequencerVars, concat, timingIntegerVars, doubleSequencerVars, observableMapVars>>

\* binarySearch.lookup(interval), the iterator read to its end
Lookup ==
    /\ \E interval \in Lookups :
          query' = IntervalQuery("lookup", interval, lookup(array, interval))
    /\ Asked

\* binarySearch.binaryIndexOf(x)
BinaryIndexOf ==
    /\ \E x \in Searched : query' = IndexQuery("binaryIndexOf", x, binaryIndexOf(array, x))
    /\ Asked

\* binarySearch.isFound(binarySearch.binaryIndexOf(x), x)
IsFound ==
    /\ \E x \in Searched :
          query' = FoundQuery("isFound", x,
                              [threw |-> FALSE,
                               value |-> isFound(array, binaryIndexOf(array, x), x)])
    /\ Asked

\* binarySearch.indexOf(x)
IndexOf ==
    /\ \E x \in Searched : query' = IndexQuery("indexOf", x, indexOf(array, x))
    /\ Asked

\* binarySearch.has(x)
Has ==
    /\ \E x \in Searched : query' = FoundQuery("has", x, has(array, x))
    /\ Asked

\* binarySearch.ltIndexOf(x)
LtIndexOf ==
    /\ \E x \in Searched : query' = IndexQuery("ltIndexOf", x, ltIndexOf(array, x))
    /\ Asked

\* binarySearch.leIndexOf(x)
LeIndexOf ==
    /\ \E x \in Searched : query' = IndexQuery("leIndexOf", x, leIndexOf(array, x))
    /\ Asked

\* binarySearch.gtIndexOf(x)
GtIndexOf ==
    /\ \E x \in Searched : query' = IndexQuery("gtIndexOf", x, gtIndexOf(array, x))
    /\ Asked

\* binarySearch.geIndexOf(x)
GeIndexOf ==
    /\ \E x \in Searched : query' = IndexQuery("geIndexOf", x, geIndexOf(array, x))
    /\ Asked

NextBinarySearch ==
    \/ Update \/ Insert \/ Remove \/ Clear
    \/ Lookup \/ BinaryIndexOf \/ IsFound \/ IndexOf \/ Has
    \/ LtIndexOf \/ LeIndexOf \/ GtIndexOf \/ GeIndexOf

\* a BinarySearch on its own
SpecBinarySearch == Init /\ [][NextBinarySearch]_vars

\* array_concat(arrays, {copy, order}) on a list of n arrays
ArrayConcat ==
    /\ \E n \in 0..MaxArrays, copy \in BOOLEAN, order \in BOOLEAN :
          \E heap \in Heaps(n) :
              LET arrays == [i \in 1..n |-> i]
              IN concat' = ConcatCall(heap, arrays, copy, order,
                                      array_concat(heap, arrays, copy, order))
    /\ UNCHANGED <<sequencerVars, binarySearchVars, timingIntegerVars, doubleSequencerVars, observableMapVars>>

NextArrayConcat == ArrayConcat

\* array_concat on its own
SpecArrayConcat == Init /\ [][NextArrayConcat]_vars

\* _onChange() and _onTimeout(): eventifyTriggerEvent("change"), then
\* _renewTimeout(), with srcs the timing sources and armed the timeouts
\* armed when the handler runs
OnChangeOrTimeout(op, src, srcs, armed) ==
    /\ emitted' = Emitted(op, src, timingsrc, value(srcs[timingsrc]))
    /\ \E r \in {renewTimeout(timeout, armed, timingsrc, srcs[timingsrc], clock)} :
          /\ timeout' = r.timeout
          /\ timers' = r.timers

\* a change event of source s reaches _wrappedOnChange if it is subscribed
SourceChanged(s, srcs) ==
    /\ sources' = srcs
    /\ IF srcs[s].subscribed THEN OnChangeOrTimeout("change", s, srcs, timers)
       ELSE UNCHANGED <<timers, timeout, emitted>>
    /\ UNCHANGED <<clock, timingsrc, pendingInit>>
    /\ UNCHANGED <<sequencerVars, binarySearchVars, concat, doubleSequencerVars, observableMapVars>>

\* a timing source becomes ready and emits its first change event
SourceReady ==
    /\ ~pendingInit
    /\ \E s \in Sources, p \in Starts, v \in Velocities :
          /\ ~sources[s].ready
          /\ SourceChanged(s, [sources EXCEPT ![s] = Source(TRUE, p, v, @.subscribed)])

\* source.update({velocity: v}): the source emits a change event
SourceUpdate ==
    /\ ~pendingInit
    /\ \E s \in Sources, v \in Velocities :
          /\ sources[s].ready
          /\ SourceChanged(s, [sources EXCEPT ![s].velocity = v])

\* timingInteger.timingsrc = s: off on the previous source, clearTimeout of
\* this._tid, which is never set, and on on the new source, which owes the
\* handler an init event if it is ready
Assign ==
    /\ ~pendingInit
    /\ \E s \in Sources :
          /\ sources' = [[sources EXCEPT ![timingsrc].subscribed = FALSE]
                            EXCEPT ![s].subscribed = TRUE]
          /\ timingsrc' = s
          /\ pendingInit' = sources[s].ready
    /\ UNCHANGED <<clock, timers, timeout, emitted>>
    /\ UNCHANGED <<sequencerVars, binarySearchVars, concat, doubleSequencerVars, observableMapVars>>

\* eventify delivers the init event of the subscription: _onChange()
InitEvent ==
    /\ pendingInit
    /\ pendingInit' = FALSE
    /\ OnChangeOrTimeout("change", timingsrc, sources, timers)
    /\ UNCHANGED <<sources, clock, timingsrc>>
    /\ UNCHANGED <<sequencerVars, binarySearchVars, concat, doubleSequencerVars, observableMapVars>>

\* the timeouts that are due
DueTimers == {t \in timers : t.at <= clock}

\* a timeout that is due fires: _onTimeout()
TimeoutFire ==
    /\ ~pendingInit
    /\ \E t \in DueTimers : OnChangeOrTimeout("timeout", t.src, sources, timers \ {t})
    /\ UNCHANGED <<sources, clock, timingsrc, pendingInit>>
    /\ UNCHANGED <<sequencerVars, binarySearchVars, concat, doubleSequencerVars, observableMapVars>>

\* half a time unit passes with nothing due: the sources that are ready move
TickClock ==
    /\ clock < MaxClock
    /\ ~pendingInit
    /\ DueTimers = {}
    /\ clock' = clock + 1
    /\ sources' = [s \in Sources |->
                      IF sources[s].ready
                      THEN [sources[s] EXCEPT !.position = @ + sources[s].velocity]
                      ELSE sources[s]]
    /\ UNCHANGED <<timers, timingsrc, timeout, pendingInit, emitted>>
    /\ UNCHANGED <<sequencerVars, binarySearchVars, concat, doubleSequencerVars, observableMapVars>>

NextTimingInteger ==
    SourceReady \/ SourceUpdate \/ Assign \/ InitEvent \/ TimeoutFire \/ TickClock

\* a TimingInteger and its timing sources on their own
SpecTimingInteger == Init /\ [][NextTimingInteger]_vars

\* a change event of timing object to reaches _onTimingUpdateWrapper, with
\* tos the timing objects as the event finds them; to.old_vector is the
\* vector the timing object had before
ToChanged(to, tos, init, hasOld, old_vector) ==
    \E r \in {onTimingUpdateWrapper(double, axis, tos, to, init, hasOld, old_vector, now)} :
        /\ timingObjects' = tos
        /\ double' = r.double
        /\ delivered' = delivered \cup {to}
        /\ wrapped' = Wrapped("timing", to, init, doubleIsReady(double), r.processed,
                              MotionDelta(hasOld, old_vector,
                                          IF init THEN calculateVector(tos[to].vector, now)
                                          ELSE tos[to].vector),
                              r.res)
        /\ UNCHANGED <<axis, now, toReady, vector, activeCues, queue, ev>>
        /\ UNCHANGED <<binarySearchVars, concat, timingIntegerVars, observableMapVars>>

\* a timing object becomes ready and delivers its initial change event
ToReady ==
    \E to \in Tos, m \in Motions :
        /\ ~timingObjects[to].ready
        /\ ToChanged(to, [timingObjects EXCEPT ![to] = To(TRUE, Vec(m[1], m[2], 0, now))],
                     TRUE, FALSE, NoVector)

\* a timing object is updated and delivers a change event
ToUpdate ==
    \E to \in Tos, m \in Motions :
        /\ timingObjects[to].ready
        /\ ToChanged(to, [timingObjects EXCEPT ![to] = To(TRUE, Vec(m[1], m[2], 0, now))],
                     FALSE, TRUE, timingObjects[to].vector)

\* axis.update(batch): _onAxisUpdate(batchMap) logs and does nothing more
DoubleAxisUpdate ==
    /\ \E batch \in Batches : axis' = AxisUpdate(axis, batch)
    /\ UNCHANGED <<now, toReady, vector, activeCues, queue, ev>>
    /\ UNCHANGED <<binarySearchVars, concat, timingIntegerVars, doubleSequencerVars,
                   observableMapVars>>

\* the clock of the timing objects advances
DoubleTick ==
    /\ now < MaxTime
    /\ now' = now + 1
    /\ UNCHANGED <<axis, toReady, vector, activeCues, queue, ev>>
    /\ UNCHANGED <<binarySearchVars, concat, timingIntegerVars, doubleSequencerVars,
                   observableMapVars>>

NextDoubleSequencer == ToReady \/ ToUpdate \/ DoubleAxisUpdate \/ DoubleTick

\* a DoubleSequencer, its Axis and its two timing objects on their own
SpecDoubleSequencer == Init /\ [][NextDoubleSequencer]_vars

\* observableMap.on(name, callback): a subscription to "batch" or "change"
\* is owed its init events
On ==
    /\ \E name \in {"batch", "change", "remove"} :
          /\ subscriptions[name] = "off"
          /\ subscriptions' =
                 [subscriptions EXCEPT ![name] = IF name = "remove" THEN "on" ELSE "pending"]
          /\ notified' = Notified("on", 0, Undefined, datasource, FALSE, <<>>)
    /\ UNCHANGED <<datasource, replica>>
    /\ UNCHANGED <<sequencerVars, binarySearchVars, concat, timingIntegerVars,
                   doubleSequencerVars>>

\* eventify gives a subscriber its init events, made from the datasource as
\* it is then; the subscriber to "batch" builds its replica from them
InitEvents ==
    /\ \E name \in {"batch", "change"} :
          /\ subscriptions[name] = "pending"
          /\ subscriptions' = [subscriptions EXCEPT ![name] = "on"]
          /\ \E args \in {eventifyInitEventArgs(datasource, name)} :
                \E events \in {[i \in 1..Len(args) |-> Triggered(name, args[i])]} :
                    /\ replica' = IF name = "batch" THEN ApplyEvents(<<>>, events) ELSE replica
                    /\ notified' = Notified("init", 0, Undefined, datasource, FALSE, events)
    /\ UNCHANGED datasource
    /\ UNCHANGED <<sequencerVars, binarySearchVars, concat, timingIntegerVars,
                   doubleSequencerVars>>

\* observableMap.set(key, value)
ObservableSet ==
    /\ \E k \in Keys, val \in Values :
          \E c \in {observableSet(datasource, k, val)} :
              \E events \in {Delivered(notifyEvents(c.items, subscriptions), subscriptions)} :
                  /\ datasource' = c.datasource
                  /\ replica' = ApplyEvents(replica, events)
                  /\ notified' = Notified("set", k, val, datasource, c.result, events)
    /\ UNCHANGED subscriptions
    /\ UNCHANGED <<sequencerVars, binarySearchVars, concat, timingIntegerVars,
                   doubleSequencerVars>>

\* observableMap.delete(key)
ObservableDelete ==
    /\ \E k \in Keys :
          \E c \in {observableDelete(datasource, k)} :
              \E events \in {Delivered(notifyEvents(c.items, subscriptions), subscriptions)} :
                  /\ datasource' = c.datasource
                  /\ replica' = ApplyEvents(replica, events)
                  /\ notified' = Notified("delete", k, Undefined, datasource, c.result, events)
    /\ UNCHANGED subscriptions
    /\ UNCHANGED <<sequencerVars, binarySearchVars, concat, timingIntegerVars,
                   doubleSequencerVars>>

\* observableMap.clear()
ObservableClear ==
    /\ \E c \in {observableClear(datasource)} :
          \E events \in {Delivered(notifyEvents(c.items, subscriptions), subscriptions)} :
              /\ datasource' = c.datasource
              /\ replica' = ApplyEvents(replica, events)
              /\ notified' = Notified("clear", 0, Undefined, datasource, c.result, events)
    /\ UNCHANGED subscriptions
    /\ UNCHANGED <<sequencerVars, binarySearchVars, concat, timingIntegerVars,
                   doubleSequencerVars>>

NextObservableMap == On \/ InitEvents \/ ObservableSet \/ ObservableDelete \/ ObservableClear

\* an ObservableMap and its subscribers on their own
SpecObservableMap == Init /\ [][NextObservableMap]_vars

(***************************************************************************)
(* Vocabulary of the properties                                            *)
(***************************************************************************)
\* new == undefined: exit, old == undefined: enter, both present: change
IsEnter(r) == r.new # NoCue /\ r.old = NoCue
IsExit(r) == r.new = NoCue /\ r.old # NoCue
IsChange(r) == r.new # NoCue /\ r.old # NoCue

\* the records of the notification the last handler emitted (none: <<>>)
Recs == IF Len(ev.res.notes) = 0 THEN <<>> ELSE ev.res.notes[1]

\* the records of the notification that are about key k, in order
RecsOf(k) ==
    LET About(r) == r.key = k
    IN Filter(Recs, About)

ActiveKeys == SeqKeys(activeCues)

\* the keys of the Axis cues whose interval covers position p
CoveringKeys(p) == {k \in Keys : axis[k] # NoCue /\ Covers(axis[k], p)}

\* the keys of the Axis cues with p strictly inside their interval
InsideKeys(p) == {k \in Keys : axis[k] # NoCue /\ axis[k].low < p /\ p < axis[k].high}

\* the keys of the Axis cues with p inside their interval or at an endpoint of it
TouchingKeys(p) == {k \in Keys : axis[k] # NoCue /\ axis[k].low <= p /\ p <= axis[k].high}

\* the position of the timing object's vector at the clock's time
PositionNow == calculateVector(vector, now).position

\* the vector a timing event stands for: re-anchored for the initial event
EffectiveVector == IF ev.init THEN calculateVector(vector, now) ELSE vector

(***************************************************************************)
(* C1: after a handler of the SingleSequencer has run on a ready timing    *)
(* object, a key is in activeCues iff the Axis holds a cue under it whose  *)
(* interval covers the position of the current vector at that time.  For a *)
(* due batch of the Schedule the cues with an endpoint at the position are *)
(* left free (the timer tolerance of the specification): the cues with the *)
(* position strictly inside are active and the cues with the position      *)
(* outside their closed interval are not.                                  *)
(***************************************************************************)
C1_ActiveSetCorrect ==
    /\ (toReady /\ ev.op \in {"axis", "timing"}) => ActiveKeys = CoveringKeys(PositionNow)
    /\ ev.op = "schedule" =>
          /\ InsideKeys(PositionNow) \subseteq ActiveKeys
          /\ ActiveKeys \subseteq TouchingKeys(PositionNow)

(***************************************************************************)
(* C2: after a timing change with posDelta = CHANGE or moveDelta = STOP,   *)
(* activeCues is exactly the set of Axis cues covering the new vector's    *)
(* position, and the notification holds exactly one exit record for each   *)
(* key that left the active set and one enter record for each key that     *)
(* joined it.                                                              *)
(***************************************************************************)
C2_TimingReconciles ==
    (ev.op = "timing" /\ (ev.delta.posDelta = "CHANGE" \/ ev.delta.moveDelta = "STOP")) =>
        /\ ActiveKeys = CoveringKeys(EffectiveVector.position)
        /\ \A k \in Keys :
              RecsOf(k) =
                  IF MapHas(ev.pre, k) /\ k \notin ActiveKeys
                  THEN <<Rec(k, NoCue, MapGet(ev.pre, k))>>
                  ELSE IF ~MapHas(ev.pre, k) /\ k \in ActiveKeys
                  THEN <<Rec(k, MapGet(activeCues, k), NoCue)>>
                  ELSE <<>>

(***************************************************************************)
(* C3: in an Axis batch (timing object ready), for every eventMap item     *)
(* whose interval delta is not NOOP the notification holds an exit record  *)
(* when the key was active and should no longer be, an enter record when   *)
(* it was not and should be, a change record when it was and should be,    *)
(* and no record when it was not and should not be.                        *)
(***************************************************************************)
C3_AxisRecords ==
    (ev.op = "axis" /\ toReady) =>
        \A i \in 1..Len(ev.eventMap) :
            LET item == ev.eventMap[i]
                was_active == MapHas(ev.pre, item.key)
                should_be_active == item.new # NoCue /\ Covers(item.new, PositionNow)
                recs == RecsOf(item.key)
            IN item.delta.interval # "NOOP" =>
                  /\ (was_active /\ ~should_be_active) => (Len(recs) = 1 /\ IsExit(recs[1]))
                  /\ (~was_active /\ should_be_active) => (Len(recs) = 1 /\ IsEnter(recs[1]))
                  /\ (was_active /\ should_be_active) => (Len(recs) = 1 /\ IsChange(recs[1]))
                  /\ (~was_active /\ ~should_be_active) => Len(recs) = 0

(***************************************************************************)
(* C4: for a non-singular endpoint item of a due batch, with               *)
(* enter = direction * (right ? -1 : +1) > 0: an inactive cue that is      *)
(* entered is added to activeCues with one enter record, an active cue     *)
(* that is left is removed with one exit record, and in the other cases    *)
(* activeCues is unchanged for the cue and no record is emitted for it.    *)
(***************************************************************************)
C4_EndpointItem ==
    ev.op = "schedule" =>
        \A i \in 1..Len(ev.items) :
            LET item == ev.items[i]
                k == item.cue.key
                enter == (item.direction * (IF item.endpoint[2] THEN -1 ELSE 1)) > 0
                was_active == MapHas(ev.pre, k)
            IN ~item.endpoint[4] =>
                  IF enter /\ ~was_active
                  THEN MapGet(activeCues, k) = item.cue
                       /\ RecsOf(k) = <<Rec(k, item.cue, NoCue)>>
                  ELSE IF ~enter /\ was_active
                  THEN ~MapHas(activeCues, k) /\ RecsOf(k) = <<Rec(k, NoCue, item.cue)>>
                  ELSE MapGet(activeCues, k) = MapGet(ev.pre, k) /\ RecsOf(k) = <<>>

\* a due batch entered an inactive cue at a non-singular endpoint
C4_Witness ==
    /\ ev.op = "schedule"
    /\ \E i \in 1..Len(ev.items) :
          /\ ~ev.items[i].endpoint[4]
          /\ ~MapHas(ev.pre, ev.items[i].cue.key)
          /\ MapHas(activeCues, ev.items[i].cue.key)
          /\ RecsOf(ev.items[i].cue.key) # <<>>

(***************************************************************************)
(* C5: a key for which enter was emitted (an active key) leaves activeCues *)
(* only with an exit record, and once its cue is gone from the Axis        *)
(* without that exit it stays in activeCues for ever.                      *)
(***************************************************************************)
C5_EventSymmetry ==
    [][\A k \in Keys :
          MapHas(activeCues, k) =>
              IF axis[k] = NoCue
              THEN MapHas(activeCues', k)
              ELSE MapHas(activeCues', k)
                   \/ \E i \in 1..Len(Recs') : Recs'[i].key = k /\ IsExit(Recs'[i])]_vars

(***************************************************************************)
(* C6: after an Axis batch the active set agrees with every emitted        *)
(* record: get(key) is the new cue of an enter or change record, and       *)
(* has(key) is false for an exit record.                                   *)
(***************************************************************************)
C6_ActiveFollowsRecords ==
    ev.op = "axis" =>
        \A i \in 1..Len(Recs) :
            IF IsExit(Recs[i])
            THEN ~MapHas(activeCues, Recs[i].key)
            ELSE MapGet(activeCues, Recs[i].key) = Recs[i].new

(***************************************************************************)
(* C7: every timing change makes one call Schedule.setVector with the      *)
(* effective new vector.                                                   *)
(***************************************************************************)
C7_TimingSetsVector ==
    ev.op = "timing" => ev.res.sched = <<EffectiveVector>>

(***************************************************************************)
(* C8: every Axis batch (timing object ready) ends with a call             *)
(* Schedule.setVector with the timing object's vector at the clock's time, *)
(* after activeCues is updated and the notification is delivered.          *)
(***************************************************************************)
C8_AxisSetsVector ==
    (ev.op = "axis" /\ toReady) =>
        /\ ev.res.sched = <<calculateVector(vector, now)>>
        /\ ev.res.trace \in {<<"activeCues", "setVector">>,
                             <<"activeCues", "trigger", "setVector">>}

(***************************************************************************)
(* C9 as stated: a singular endpoint item of a due batch makes no net      *)
(* change to activeCues, whether its cue was active or not.                *)
(***************************************************************************)
C9_SingularNoNetChange ==
    ev.op = "schedule" =>
        \A i \in 1..Len(ev.items) :
            ev.items[i].endpoint[4] =>
                MapGet(activeCues, ev.items[i].cue.key) = MapGet(ev.pre, ev.items[i].cue.key)

(***************************************************************************)
(* C9 amended: after a singular endpoint item its cue is not in            *)
(* activeCues: an inactive cue stays out (no net change) and an active cue *)
(* is removed; a batch of that item alone changes nothing else.            *)
(***************************************************************************)
C9_SingularLeavesInactive ==
    ev.op = "schedule" =>
        \A i \in 1..Len(ev.items) :
            ev.items[i].endpoint[4] =>
                /\ ~MapHas(activeCues, ev.items[i].cue.key)
                /\ Len(ev.items) = 1 => activeCues = MapDelete(ev.pre, ev.items[i].cue.key)

\* a due batch held a singular endpoint item whose cue was active
C9_Witness ==
    /\ ev.op = "schedule"
    /\ \E i \in 1..Len(ev.items) :
          /\ ev.items[i].endpoint[4]
          /\ MapHas(ev.pre, ev.items[i].cue.key)
          /\ ~MapHas(activeCues, ev.items[i].cue.key)

(***************************************************************************)
(* C10: a singular endpoint item for an inactive cue P puts, in the one    *)
(* notification of the batch, an enter record for P immediately followed   *)
(* by an exit record for P, and P is not in activeCues afterwards.         *)
(***************************************************************************)
C10_PointPassage ==
    ev.op = "schedule" =>
        \A i \in 1..Len(ev.items) :
            LET P == ev.items[i].cue
            IN (ev.items[i].endpoint[4] /\ ~MapHas(ev.pre, P.key)) =>
                  /\ Len(ev.res.notes) = 1
                  /\ \E j \in 1..(Len(Recs) - 1) :
                        /\ Recs[j] = Rec(P.key, P, NoCue)
                        /\ Recs[j + 1] = Rec(P.key, NoCue, P)
                  /\ ~MapHas(activeCues, P.key)

\* a due batch held a singular endpoint item whose cue was inactive
C10_Witness ==
    /\ ev.op = "schedule"
    /\ \E i \in 1..Len(ev.items) :
          /\ ev.items[i].endpoint[4]
          /\ ~MapHas(ev.pre, ev.items[i].cue.key)
          /\ Len(RecsOf(ev.items[i].cue.key)) = 2

(***************************************************************************)
(* C11: a timing change emits no change-class record, and none at all when *)
(* the active cues are the cues covering the new position.  Stated of the  *)
(* handler as it runs, and of the reconciliation of _onTimingCallback      *)
(* applied to every state and every motion of the model.                   *)
(***************************************************************************)
C11_TimingNoChangeRecords ==
    /\ ev.op = "timing" =>
          /\ \A i \in 1..Len(Recs) : IsEnter(Recs[i]) \/ IsExit(Recs[i])
          /\ SeqKeys(ev.pre) = CoveringKeys(EffectiveVector.position) => ev.res.notes = <<>>
    /\ toReady =>
          \A m \in Motions :
              LET res == TimingReconcile(activeCues, axis, TRUE, vector, Vec(m[1], m[2], 0, now))
              IN /\ \A n \in 1..Len(res.notes) : \A i \in 1..Len(res.notes[n]) :
                        IsEnter(res.notes[n][i]) \/ IsExit(res.notes[n][i])
                 /\ ActiveKeys = CoveringKeys(m[1]) => res.notes = <<>>

\* a timing change stopped or jumped to a position where the active cue
\* stays covered
C11_Witness ==
    /\ ev.op = "timing"
    /\ ev.delta.posDelta = "CHANGE" \/ ev.delta.moveDelta = "STOP"
    /\ ev.pre # <<>>
    /\ SeqKeys(ev.pre) = CoveringKeys(EffectiveVector.position)

(***************************************************************************)
(* C12: an input event triggers "change" at most once, never with an empty *)
(* payload, and the one payload holds a record for every key the handler   *)
(* moved into or out of activeCues and for every point cue of a due batch. *)
(***************************************************************************)
C12_OneNotification ==
    /\ Len(ev.res.notes) <= 1
    /\ \A n \in 1..Len(ev.res.notes) : Len(ev.res.notes[n]) > 0
    /\ ev.op \in {"axis", "timing", "schedule"} =>
          \A k \in Keys : (MapHas(ev.pre, k) # MapHas(activeCues, k)) => RecsOf(k) # <<>>
    /\ ev.op = "schedule" =>
          \A i \in 1..Len(ev.items) :
              ev.items[i].endpoint[4] => RecsOf(ev.items[i].cue.key) # <<>>

\* a due batch of two items made one notification of several records
C12_Witness ==
    /\ ev.op = "schedule"
    /\ Len(ev.items) >= 2
    /\ Len(ev.res.notes) = 1
    /\ Len(Recs) >= 2
    /\ \A k \in Keys : RecsOf(k) # <<>>

\* where key k stands in a list of keyed entries, behind them when it is not
\* among them
IndexOfKey(m, k) ==
    IF \E i \in 1..Len(m) : m[i].key = k
    THEN CHOOSE i \in 1..Len(m) : m[i].key = k
    ELSE Len(m) + 1

\* exit records 1, change records 2, enter records 3
RecordClass(r) == IF IsExit(r) THEN 1 ELSE IF IsChange(r) THEN 2 ELSE 3

C14_JumpExitBeforeEnter ==
    (ev.op = "timing" /\ ev.delta.posDelta = "CHANGE") =>
        /\ \A i, j \in 1..Len(Recs) : (IsExit(Recs[i]) /\ IsEnter(Recs[j])) => i < j
        /\ {Recs[i].key : i \in {n \in 1..Len(Recs) : IsExit(Recs[n])}}
              = SeqKeys(ev.pre) \ CoveringKeys(EffectiveVector.position)
        /\ {Recs[i].key : i \in {n \in 1..Len(Recs) : IsEnter(Recs[n])}}
              = CoveringKeys(EffectiveVector.position) \ SeqKeys(ev.pre)
        /\ ActiveKeys = CoveringKeys(EffectiveVector.position)

(***************************************************************************)
(* C15: while the timing object is not ready, an Axis batch or a timing    *)
(* change leaves activeCues as it was, triggers no notification and does   *)
(* not fail.                                                               *)
(***************************************************************************)
C15_UnreadyNoop ==
    (~toReady /\ ev.op \in {"axis", "timing"}) =>
        /\ ~ev.res.threw
        /\ activeCues = ev.pre
        /\ ev.res.notes = <<>>

(***************************************************************************)
(* C16: isReady() of the sequencer is isReady() of the timing object and   *)
(* its ready promise is the timing object's: the sequencer is ready        *)
(* exactly when the timing object is.                                      *)
(***************************************************************************)
C16_ReadyFollowsTiming ==
    /\ isReady(TimingObject(toReady)) = toReady
    /\ ready(TimingObject(toReady)) = TimingObject(toReady).ready
    /\ (ready(TimingObject(toReady)) = "resolved") = isReady(TimingObject(toReady))

\* the timing object has become ready and the sequencer answers ready
C16_Witness ==
    /\ toReady
    /\ ev.op = "timing"
    /\ isReady(TimingObject(toReady))

(***************************************************************************)
(* C17: every payload delivered to a subscriber of "change", the init      *)
(* events of a new subscriber included, is a list of records with the      *)
(* fields key, new and old, one of new and old at least being defined.     *)
(***************************************************************************)
C17_PayloadRecords ==
    \A n \in 1..Len(ev.res.notes) :
        \A i \in 1..Len(ev.res.notes[n]) :
            /\ DOMAIN ev.res.notes[n][i] = {"key", "new", "old"}
            /\ ev.res.notes[n][i].new # NoCue \/ ev.res.notes[n][i].old # NoCue

(***************************************************************************)
(* C18: handling the same input once more leaves activeCues as the first   *)
(* handling left it: the same Axis eventMap at the same position, the same *)
(* due batch of the Schedule.                                              *)
(***************************************************************************)
C18_Idempotent ==
    /\ ev.op = "axis" =>
          onAxisCallback(activeCues, axis, ev.eventMap, toReady, vector, now).active = activeCues
    /\ ev.op = "schedule" =>
          onScheduleCallback(activeCues, ev.items).active = activeCues

\* a handler changed activeCues: an Axis batch, and a due batch with a point
\* cue among its items
C18_Witness ==
    /\ activeCues # ev.pre
    /\ \/ ev.op = "axis"
       \/ ev.op = "schedule" /\ \E i \in 1..Len(ev.items) : ev.items[i].endpoint[4]

(***************************************************************************)
(* C19: update(to_remove, to_insert) leaves the array holding exactly the  *)
(* elements (prev UNION to_insert) MINUS to_remove, with either strategy,  *)
(* from an empty array too and with a to_remove none of whose elements is  *)
(* in the array.                                                           *)
(***************************************************************************)
C19_UpdateIsSetDifference ==
    call.op = "update" =>
        Range(array) = (Range(call.pre) \cup Range(call.to_insert)) \ Range(call.to_remove)

(***************************************************************************)
(* C20: update is idempotent: a call that inserts only elements that are   *)
(* in the array and removes only elements that are not (each listed once   *)
(* or more often) leaves the array as it was, and the same call once more  *)
(* leaves the array as the first call left it.                             *)
(***************************************************************************)
C20_UpdateIdempotent ==
    call.op = "update" =>
        /\ (Range(call.to_insert) \subseteq Range(call.pre)
            /\ Range(call.to_remove) \cap Range(call.pre) = {}) => array = call.pre
        /\ update(array, call.to_remove, call.to_insert) = array

(***************************************************************************)
(* C21: after any sequence of update, insert, remove and clear calls the   *)
(* array is in strictly increasing order, so holds no value twice.         *)
(***************************************************************************)
C21_SortedUnique ==
    \A i \in 1..(Len(array) - 1) : array[i] < array[i + 1]

\* a call on an array of several elements inserted a value the array held
\* already, and left several elements, that value among them
C21_Witness ==
    /\ call.op \in {"update", "insert"}
    /\ Len(call.pre) >= 2
    /\ Len(array) >= 2
    /\ \E i \in 1..Len(call.to_insert) :
          call.to_insert[i] \in Range(call.pre) \cap Range(array)

(***************************************************************************)
(* C22: lookup(interval) yields, in ascending order, exactly the elements  *)
(* of the array that lie inside the interval, an endpoint counting as      *)
(* inside when the interval includes it; it yields nothing when no element *)
(* lies inside.  An undefined interval stands for [-Infinity, Infinity].   *)
(***************************************************************************)
LookedUp(interval) ==
    IF interval = NoInterval THEN Itv(-Infinity, Infinity, TRUE, TRUE) ELSE interval

Inside(interval, x) ==
    /\ (interval.low < x \/ (interval.low = x /\ interval.lowInclude))
    /\ (x < interval.high \/ (x = interval.high /\ interval.highInclude))

C22_LookupExact ==
    query.op = "lookup" =>
        /\ \A i \in 1..(Len(query.yielded) - 1) : query.yielded[i] < query.yielded[i + 1]
        /\ Range(query.yielded) = {x \in Range(array) : Inside(LookedUp(query.interval), x)}

\* a lookup of an interval that excludes its low endpoint, which is an
\* element of the array, yields some elements and not all
C22_Witness ==
    /\ query.op = "lookup"
    /\ query.interval # NoInterval
    /\ ~query.interval.lowInclude
    /\ query.interval.low \in Range(array)
    /\ Len(query.yielded) >= 1
    /\ Len(query.yielded) < Len(array)

(***************************************************************************)
(* C23: ltIndexOf, leIndexOf, gtIndexOf and geIndexOf return the index of  *)
(* the largest element below x, the largest element at most x, the         *)
(* smallest element above x and the smallest element at least x, and -1    *)
(* exactly when the array has no such element.                             *)
(***************************************************************************)
\* r is the index of the largest (smallest) of the elements in S, -1 if none
IsIndexOfMax(S, r) ==
    IF S = {} THEN r = -1
    ELSE r \in 0..(Len(array) - 1) /\ At(array, r) \in S /\ \A y \in S : y <= At(array, r)

IsIndexOfMin(S, r) ==
    IF S = {} THEN r = -1
    ELSE r \in 0..(Len(array) - 1) /\ At(array, r) \in S /\ \A y \in S : y >= At(array, r)

C23_NeighbourIndexes ==
    /\ query.op = "ltIndexOf" => IsIndexOfMax({y \in Range(array) : y < query.x}, query.index)
    /\ query.op = "leIndexOf" => IsIndexOfMax({y \in Range(array) : y <= query.x}, query.index)
    /\ query.op = "gtIndexOf" => IsIndexOfMin({y \in Range(array) : y > query.x}, query.index)
    /\ query.op = "geIndexOf" => IsIndexOfMin({y \in Range(array) : y >= query.x}, query.index)

\* gtIndexOf of the largest of several elements returned -1
C23_Witness ==
    /\ query.op = "gtIndexOf"
    /\ Len(array) >= 2
    /\ query.x = array[Len(array)]
    /\ query.index = -1

(***************************************************************************)
(* C24: binaryIndexOf(x) returns the index of x when the array holds x,    *)
(* else a value at most 0 whose absolute value is the index x would be     *)
(* inserted at; isFound(binaryIndexOf(x), x) is true exactly when the      *)
(* array holds x; indexOf(x) is the index of x, or -1.                     *)
(***************************************************************************)
\* the index x has, or would be inserted at: the number of elements below x
InsertionIndex(x) == Cardinality({y \in Range(array) : y < x})

C25_HasIsMembership ==
    query.op = "has" =>
        /\ ~query.threw
        /\ query.found = (query.x \in Range(array))

(***************************************************************************)
(* C28: array_concat(arrays, {copy: true}) leaves every input array and    *)
(* the caller's list of arrays as they were and returns a new array, none  *)
(* of the inputs, that holds the elements of all inputs; for any number of *)
(* inputs, one included.                                                   *)
(***************************************************************************)
\* the elements of the input arrays of the call
InputElements == UNION {Range(concat.heap[a]) : a \in Range(concat.arrays)}

C28_CopyLeavesInputs ==
    concat.copy =>
        /\ concat.res.arrays = concat.arrays
        /\ \A a \in Range(concat.arrays) : concat.res.heap[a] = concat.heap[a]
        /\ concat.res.result \notin Range(concat.arrays)
        /\ Range(concat.res.heap[concat.res.result]) = InputElements
        /\ Len(concat.res.heap[concat.res.result]) = Cardinality(InputElements)

(***************************************************************************)
(* C29: the two update strategies are equivalent: for the array and the    *)
(* lists of any update, insert or remove call, _update_splice and          *)
(* _update_sort leave the same array.                                      *)
(***************************************************************************)
C29_StrategiesEquivalent ==
    call.op \in {"update", "insert", "remove"} =>
        update_splice(call.pre, call.to_remove, call.to_insert)
            = update_sort(call.pre, call.to_remove, call.to_insert)

(***************************************************************************)
(* C26: the TimingInteger emits a change event whenever its value, the     *)
(* floor of the position of its timing source, changes, whichever way the  *)
(* source moves: once every event that is due has been delivered, the      *)
(* value is the value at the last change event.                            *)
(***************************************************************************)
C26_ChangePerValue ==
    (/\ emitted.op # "none"
     /\ emitted.src = timingsrc
     /\ sources[timingsrc].ready
     /\ ~pendingInit
     /\ DueTimers = {}) => value(sources[timingsrc]) = emitted.value

(***************************************************************************)
(* C27: after a new timing source is assigned the handler is subscribed to *)
(* the new source only, and no timeout armed on the previous source        *)
(* triggers a change event.                                                *)
(***************************************************************************)
C27_NoTimeoutOfPreviousSource ==
    /\ \A s \in Sources : sources[s].subscribed <=> s = timingsrc
    /\ emitted.op = "timeout" => emitted.src = emitted.current

(***************************************************************************)
(* C30: for every Axis batch handled with the timing object ready, the     *)
(* three computations of _onAxisCallback (from the items of the eventMap,  *)
(* from a lookup iterating the remaining cues, from a lookup iterating the *)
(* eventMap) each return a result, and they have the same exit keys, the   *)
(* same change keys and the same enter keys.                               *)
(***************************************************************************)
\* the three results for the batch of the last Axis event
Res1 == get_events_from_axis_events(ev.pre, ev.eventMap, PositionNow)

Res2 == get_events_from_axis_lookup(ev.pre, axis, ev.eventMap, PositionNow, TRUE)

Res3 == get_events_from_axis_lookup(ev.pre, axis, ev.eventMap, PositionNow, FALSE)

SameKeys(a, b) ==
    /\ SeqKeys(a.exit) = SeqKeys(b.exit)
    /\ SeqKeys(a.change) = SeqKeys(b.change)
    /\ SeqKeys(a.enter) = SeqKeys(b.enter)

C30_ThreeComputationsAgree ==
    (ev.op = "axis" /\ toReady) =>
        /\ Res1.defined /\ Res2.defined /\ Res3.defined
        /\ SameKeys(Res1, Res2)
        /\ SameKeys(Res2, Res3)

(***************************************************************************)
(* C31: the enter and exit records emitted for a key alternate, starting   *)
(* with enter, and after a handler the key is in activeCues exactly when   *)
(* the last enter or exit record emitted for it was an enter.  Stated step *)
(* by step: the enter and exit records a handler emits for a key alternate *)
(* among themselves, the first of them is an enter exactly when the key    *)
(* was not in activeCues before the handler, the key is in activeCues      *)
(* afterwards exactly when the last of them is an enter, and a key with no *)
(* such record, as every key in a step that is no handler, stays as it     *)
(* was.  activeCues is empty at first, so this is the alternation over the *)
(* whole stream of records.                                                *)
(***************************************************************************)
EnterExitOf(recs, k) ==
    LET About(r) == r.key = k /\ (IsEnter(r) \/ IsExit(r))
    IN Filter(recs, About)

C31_EnterExitAlternate ==
    [][\A k \in Keys :
          IF ev'.op \in {"axis", "timing", "schedule"}
          THEN LET s == EnterExitOf(Recs', k)
               IN /\ \A i \in 1..(Len(s) - 1) : IsEnter(s[i]) # IsEnter(s[i + 1])
                  /\ Len(s) > 0 => (IsEnter(s[1]) <=> ~MapHas(activeCues, k))
                  /\ MapHas(activeCues', k) <=>
                         IF Len(s) > 0 THEN IsEnter(s[Len(s)]) ELSE MapHas(activeCues, k)
          ELSE MapHas(activeCues', k) <=> MapHas(activeCues, k)]_vars

(***************************************************************************)
(* C32: after a change event of a timing object delivered to a ready       *)
(* DoubleSequencer, with or without a jump of the position, the handler    *)
(* has completed, it has emitted one change notification, activeCues is a  *)
(* Map and has, get, keys, values and entries can be called.               *)
(***************************************************************************)
C32_ActiveCuesStaysMap ==
    (wrapped.op = "timing" /\ wrapped.wasReady) =>
        /\ wrapped.processed
        /\ ~wrapped.res.threw
        /\ Len(wrapped.res.notes) = 1
        /\ double.activeCues.defined
        /\ ~accessors(double).threw

(***************************************************************************)
(* C33: the DoubleSequencer is ready, and its ready promise resolved,      *)
(* exactly when each of its two timing objects has delivered a change      *)
(* event; once ready it stays ready; and while it is not ready no timing   *)
(* update has been processed: activeCues is the empty Map it was made      *)
(* with, and the last change event caused no notification and no call of   *)
(* Schedule.setVector.                                                     *)
(***************************************************************************)
C33_ReadyWhenBothDelivered ==
    /\ [](/\ doubleIsReady(double) <=> delivered = Tos
          /\ doubleReady(double).resolved <=> delivered = Tos
          /\ wrapped.processed => doubleIsReady(double)
          /\ ~doubleIsReady(double) =>
                /\ double.activeCues = ActiveMap(TRUE, <<>>)
                /\ wrapped.res.notes = <<>>
                /\ wrapped.res.sched = <<>>)
    /\ [][doubleIsReady(double) => doubleIsReady(double')]_vars

\* the second timing object has delivered its first change event after the
\* first one had delivered two: the sequencer became ready with this event
\* and processed it
C33_Witness ==
    /\ wrapped.op = "timing"
    /\ ~wrapped.wasReady
    /\ wrapped.init
    /\ wrapped.processed
    /\ doubleIsReady(double)
    /\ delivered = Tos
    /\ timingObjects[OtherTo(wrapped.src)].vector.timestamp < now
    /\ Len(wrapped.res.sched) = 1

(***************************************************************************)
(* C34: a TimingInteger has at most one timeout armed at any moment, and   *)
(* it is the one this._timeout holds: the timeout armed before is          *)
(* cancelled or has fired when _renewTimeout arms the next.                *)
(***************************************************************************)
C34_AtMostOneTimeout ==
    /\ Cardinality(timers) <= 1
    /\ \A t \in timers : t.id = timeout

\* after a reassignment to source 2 a timeout armed on it has fired and the
\* next one is armed
C34_Witness ==
    /\ emitted.op = "timeout"
    /\ emitted.src = 2
    /\ emitted.current = 2
    /\ \E t \in timers : t.src = 2 /\ t.id = timeout /\ t.at > clock

(***************************************************************************)
(* C35: isReady() of the TimingInteger returns isReady() of its current    *)
(* timing source, and its ready property returns the readiness of that     *)
(* source without failing.                                                 *)
(***************************************************************************)
C35_ReadinessDelegates ==
    /\ ~integerIsReady(sources[timingsrc]).threw
    /\ integerIsReady(sources[timingsrc]).value = sources[timingsrc].ready
    /\ ~integerReady(sources[timingsrc]).threw
    /\ integerReady(sources[timingsrc]).value = sources[timingsrc].ready

(***************************************************************************)
(* C36: delete(key) for a key that is not in the map returns false, leaves *)
(* the datasource as it was and gives no subscriber a "batch", "change" or *)
(* "remove" event.                                                         *)
(***************************************************************************)
C36_DeleteAbsentIsSilent ==
    (notified.op = "delete" /\ ~MapHas(notified.pre, notified.key)) =>
        /\ notified.result = FALSE
        /\ datasource = notified.pre
        /\ notified.events = <<>>

(***************************************************************************)
(* C37: the replica a subscriber builds from the init event of "batch" and *)
(* keeps up with the items of every later "batch" event holds, after every *)
(* set, delete and clear, the keys and values of the datasource.           *)
(***************************************************************************)
C37_ReplicaFollowsDatasource ==
    subscriptions["batch"] = "on" => Range(replica) = Range(datasource)

====
